---- MODULE Spec2Model ----
(***************************************************************************)
(* Model of the fetch-interception / endpoint-dispatch bridge of           *)
(* react-fastapi-pyodide: the Bridge / PyodideEngine session lifecycle,    *)
(* Bridge.call, the FetchInterceptor and the PyodideSwaggerUI fetch        *)
(* override, and the path matcher.                                         *)
(***************************************************************************)
EXTENDS Integers, Sequences, FiniteSets, TLC

(***************************************************************************)
(* Bounds                                                                  *)
(***************************************************************************)
NumCallers == 3
MaxRuns == 2
MaxSegs == 2
MaxInterceptors == 2
MaxLoaders == 1

VARIABLES
    kind,           \* which session class is modelled: "Bridge" or "Engine"
    isInitialized,  \* Bridge.isInitialized / PyodideEngine.isInitialized
    initPromise,    \* Bridge.initPromise / PyodideEngine.initializationPromise (0 = null)
    pyodide,        \* the runtime reference (0 = null, n = the n-th loaded instance)
    runs,           \* the _performInitialization() invocations, in order of creation
    stepCount,      \* how many times each stage of the sequence has executed
    callers,        \* the initialize() callers and the promise each was handed
    loaders,        \* the loadBackend() callers that initialize on demand
    endpointPath,   \* matcher harness: the path template handed to the matcher
    requestPath,    \* matcher harness: the concrete request path
    matchOut,       \* matcher harness: what the matcher returned
    endpoints,      \* Bridge.endpoints / PyodideEndpointExecutor.endpoints
    backendLoaded,  \* Bridge.backendLoaded / PyodideEndpointExecutor.isUserCodeLoaded
    codeHash,       \* PyodideEndpointExecutor.loadedUserCodeHash (0 = "")
    pyBridge,       \* the operations registered in the runtime-side bridge object
    appMain,        \* the source whose app_main module Python's sys.modules holds (0 = none)
    lastCall,       \* the most recent Bridge.call and how its promise settled
    lastLoad,       \* the loadBackend / loadUserCode call that has just settled, if any
    lastPersist,    \* the persist() / saveState() call that has just settled, if any
    globalFetch,    \* globalThis.fetch: 0 = the native primitive, i = wrapper of interceptor i
    icpt,           \* the interceptors constructed so far
    lastFetch,      \* the fetch call that has just returned, if any
    router,         \* the BridgeRouter component: its state, ref and effect closure
    provider,       \* the PyodideProvider component and the module-level guard
    execs,          \* the PyodideEngine.executeEndpoint calls in flight
    requestBody     \* the runtime global _request_body (0 = not set)

lifeVars == <<kind, isInitialized, initPromise, pyodide, runs, stepCount, callers,
             loaders>>
matchVars == <<endpointPath, requestPath, matchOut>>
backendVars == <<endpoints, backendLoaded, codeHash, pyBridge, appMain>>
callVars == <<lastCall, lastLoad, lastPersist>>
fetchVars == <<globalFetch, icpt, lastFetch>>
pageVars == <<router, provider, execs, requestBody>>

vars == <<kind, isInitialized, initPromise, pyodide, runs, stepCount, callers, loaders,
          endpointPath, requestPath, matchOut,
          endpoints, backendLoaded, codeHash, pyBridge, appMain, lastCall, lastLoad,
          lastPersist,
          globalFetch, icpt, lastFetch, router, provider, execs, requestBody>>

(***************************************************************************)
(* Strings are sequences of one-character strings.                         *)
(***************************************************************************)
StartsWith(s, p) == Len(p) <= Len(s) /\ SubSeq(s, 1, Len(p)) = p

Drop(s, n) == SubSeq(s, n + 1, Len(s))

\* The index of the first occurrence of character c in s, 0 when absent.
IndexOf(s, c) ==
    IF \E i \in 1..Len(s) : s[i] = c
    THEN CHOOSE i \in 1..Len(s) : s[i] = c /\ \A j \in 1..(i - 1) : s[j] # c
    ELSE 0

RECURSIVE JoinSegs(_)
\* "/" followed by the segments separated by "/".
JoinSegs(segs) ==
    IF Len(segs) = 0 THEN <<>>
    ELSE <<"/">> \o Head(segs) \o JoinSegs(Tail(segs))

RECURSIVE SplitSlash(_)
\* String.split("/") of a string.
SplitSlash(s) ==
    LET k == IndexOf(s, "/")
    IN  IF k = 0 THEN <<s>>
        ELSE <<SubSeq(s, 1, k - 1)>> \o SplitSlash(Drop(s, k))

(***************************************************************************)
(* JavaScript values: strings, JSON values and objects with their keys in  *)
(* insertion order.                                                        *)
(***************************************************************************)
JsVal(t, s, items) == [t |-> t, s |-> s, items |-> items]

Undefined == JsVal("undefined", <<>>, <<>>)
JNull == JsVal("null", <<>>, <<>>)
JTrue == JsVal("true", <<>>, <<>>)
JFalse == JsVal("false", <<>>, <<>>)
Str(s) == JsVal("string", s, <<>>)
Num(s) == JsVal("number", s, <<>>)
Arr(items) == JsVal("array", <<>>, items)
Obj(entries) == JsVal("object", <<>>, entries)
Pair(k, v) == JsVal("pair", k, <<v>>)

\* A request body that is not a string (FormData, Blob, ...).
FormData == JsVal("formdata", <<>>, <<>>)

EmptyObject == Obj(<<>>)

ObjHas(o, k) == \E i \in 1..Len(o.items) : o.items[i].s = k

\* o[k], undefined when o has no such key.
ObjGet(o, k) ==
    IF ObjHas(o, k)
    THEN o.items[CHOOSE i \in 1..Len(o.items) : o.items[i].s = k].items[1]
    ELSE Undefined

\* o[k] = v: an existing key keeps its position.
ObjSet(o, k, v) ==
    IF ObjHas(o, k)
    THEN Obj([i \in 1..Len(o.items) |->
                 IF o.items[i].s = k THEN Pair(k, v) ELSE o.items[i]])
    ELSE Obj(Append(o.items, Pair(k, v)))

\* typeof v === "object" && v !== null
IsObject(v) == v.t \in {"object", "array", "formdata"}

\* The truthiness of a value as a condition.
Truthy(v) ==
    CASE v.t \in {"undefined", "null", "false"} -> FALSE
      [] v.t = "string" -> v.s # <<>>
      [] v.t = "number" -> v.s # <<"0">>
      [] OTHER -> TRUE

RECURSIVE ParamsFrom(_, _, _)
\* The object that holds the bindings f of the placeholder names, each key
\* at the position of its first assignment.
ParamsFrom(names, f, acc) ==
    IF names = <<>> THEN acc
    ELSE ParamsFrom(Tail(names), f,
                    IF Head(names) \in DOMAIN f
                    THEN ObjSet(acc, Head(names), Str(f[Head(names)]))
                    ELSE acc)

\* The query string of a URL: what follows the first "?".
QueryString(url) == IF IndexOf(url, "?") = 0 THEN <<>> ELSE Drop(url, IndexOf(url, "?"))

\* The first "&"-separated piece of a query string, and what follows it.
QueryPiece(q) == IF IndexOf(q, "&") = 0 THEN q ELSE SubSeq(q, 1, IndexOf(q, "&") - 1)
QueryRest(q) == IF IndexOf(q, "&") = 0 THEN <<>> ELSE Drop(q, IndexOf(q, "&"))

\* The name and the value of a "name=value" piece.
PieceKey(p) == IF IndexOf(p, "=") = 0 THEN p ELSE SubSeq(p, 1, IndexOf(p, "=") - 1)
PieceValue(p) == IF IndexOf(p, "=") = 0 THEN <<>> ELSE Drop(p, IndexOf(p, "="))

RECURSIVE ParseQuery(_, _)
\* for (const [key, value] of searchParams.entries()) queryParams[key] = value
ParseQuery(q, acc) ==
    IF q = <<>> THEN acc
    ELSE ParseQuery(QueryRest(q),
                    IF QueryPiece(q) = <<>> THEN acc
                    ELSE ObjSet(acc, PieceKey(QueryPiece(q)),
                                Str(PieceValue(QueryPiece(q)))))

\* new URL(url, base).searchParams collected into an object; every value is
\* a string.
SearchParams(url) == ParseQuery(QueryString(url), EmptyObject)

(***************************************************************************)
(* JSON.parse on the JSON texts without escapes, fractions and exponents   *)
(***************************************************************************)
Digits == {"0", "1", "2", "3", "4", "5", "6", "7", "8", "9"}

\* The characters the regular-expression class \w matches.
WordChars ==
    Digits \cup {"_"} \cup
    {"a", "b", "c", "d", "e", "f", "g", "h", "i", "j", "k", "l", "m",
     "n", "o", "p", "q", "r", "s", "t", "u", "v", "w", "x", "y", "z"} \cup
    {"A", "B", "C", "D", "E", "F", "G", "H", "I", "J", "K", "L", "M",
     "N", "O", "P", "Q", "R", "S", "T", "U", "V", "W", "X", "Y", "Z"}

RECURSIVE SpaceRun(_)
\* The number of spaces s starts with.
SpaceRun(s) == IF s # <<>> /\ Head(s) = " " THEN 1 + SpaceRun(Tail(s)) ELSE 0

SkipWs(s) == Drop(s, SpaceRun(s))

RECURSIVE DigitRun(_)
\* The number of digits s starts with.
DigitRun(s) == IF s # <<>> /\ Head(s) \in Digits THEN 1 + DigitRun(Tail(s)) ELSE 0

\* The length of the JSON number s starts with: no leading zeros.
NumberLen(s) == IF Head(s) = "0" THEN 1 ELSE DigitRun(s)

ParseFail == [ok |-> FALSE, v |-> Undefined, rest |-> <<>>]
Parsed(v, rest) == [ok |-> TRUE, v |-> v, rest |-> rest]

\* The string literal s starts with (s[1] is the opening quote).
ParseString(s) ==
    IF IndexOf(Tail(s), "\"") = 0 THEN ParseFail
    ELSE Parsed(Str(SubSeq(Tail(s), 1, IndexOf(Tail(s), "\"") - 1)),
                Drop(Tail(s), IndexOf(Tail(s), "\"")))

RECURSIVE ParseValue(_)
RECURSIVE ParseAt(_)
RECURSIVE ParseElements(_, _)
RECURSIVE ElementParsed(_, _)
RECURSIVE AfterElement(_, _)
RECURSIVE ParseMembers(_, _)
RECURSIVE MemberKey(_, _)
RECURSIVE KeyParsed(_, _)
RECURSIVE MemberColon(_, _, _)
RECURSIVE MemberParsed(_, _, _)
RECURSIVE AfterMember(_, _)

\* The JSON value at the start of s, and the text that follows it.
ParseValue(s) == ParseAt(SkipWs(s))

ParseAt(s) ==
    IF s = <<>> THEN ParseFail
    ELSE IF StartsWith(s, <<"t", "r", "u", "e">>) THEN Parsed(JTrue, Drop(s, 4))
    ELSE IF StartsWith(s, <<"f", "a", "l", "s", "e">>) THEN Parsed(JFalse, Drop(s, 5))
    ELSE IF StartsWith(s, <<"n", "u", "l", "l">>) THEN Parsed(JNull, Drop(s, 4))
    ELSE IF Head(s) = "\"" THEN ParseString(s)
    ELSE IF Head(s) \in Digits
    THEN Parsed(Num(SubSeq(s, 1, NumberLen(s))), Drop(s, NumberLen(s)))
    ELSE IF Head(s) = "["
    THEN IF StartsWith(SkipWs(Tail(s)), <<"]">>)
         THEN Parsed(Arr(<<>>), Tail(SkipWs(Tail(s))))
         ELSE ParseElements(Tail(s), <<>>)
    ELSE IF Head(s) = "{"
    THEN IF StartsWith(SkipWs(Tail(s)), <<"}">>)
         THEN Parsed(EmptyObject, Tail(SkipWs(Tail(s))))
         ELSE ParseMembers(Tail(s), EmptyObject)
    ELSE ParseFail

\* The elements of an array, after "[" or ",".
ParseElements(s, acc) == ElementParsed(ParseValue(s), acc)

ElementParsed(r, acc) ==
    IF ~r.ok THEN ParseFail ELSE AfterElement(SkipWs(r.rest), Append(acc, r.v))

AfterElement(s, acc) ==
    IF s = <<>> THEN ParseFail
    ELSE IF Head(s) = "," THEN ParseElements(Tail(s), acc)
    ELSE IF Head(s) = "]" THEN Parsed(Arr(acc), Tail(s))
    ELSE ParseFail

\* The members of an object, after "{" or ",".
ParseMembers(s, acc) == MemberKey(SkipWs(s), acc)

MemberKey(s, acc) ==
    IF s = <<>> \/ Head(s) # "\"" THEN ParseFail ELSE KeyParsed(ParseString(s), acc)

KeyParsed(k, acc) ==
    IF ~k.ok THEN ParseFail ELSE MemberColon(k.v.s, SkipWs(k.rest), acc)

MemberColon(key, s, acc) ==
    IF s = <<>> \/ Head(s) # ":" THEN ParseFail
    ELSE MemberParsed(key, ParseValue(Tail(s)), acc)

MemberParsed(key, r, acc) ==
    IF ~r.ok THEN ParseFail ELSE AfterMember(SkipWs(r.rest), ObjSet(acc, key, r.v))

AfterMember(s, acc) ==
    IF s = <<>> THEN ParseFail
    ELSE IF Head(s) = "," THEN ParseMembers(Tail(s), acc)
    ELSE IF Head(s) = "}" THEN Parsed(acc, Tail(s))
    ELSE ParseFail

\* A complete parse leaves nothing but white space.
WholeText(r) ==
    IF r.ok /\ SkipWs(r.rest) = <<>> THEN [ok |-> TRUE, v |-> r.v]
    ELSE [ok |-> FALSE, v |-> Undefined]

\* JSON.parse(s): ok = FALSE when it throws.
JsonParse(s) == WholeText(ParseValue(s))

\* A catch that leaves the body unset.
ParsedOrNothing(r, raw) == IF r.ok THEN r.v ELSE Undefined

\* try { JSON.parse(...) } catch { raw }
ParsedOr(r, raw) == IF r.ok THEN r.v ELSE raw

\* The position after a word is a word boundary (the word ends in a word
\* character).
WordBoundaryAt(rest) == rest = <<>> \/ Head(rest) \notin WordChars

\* The length of the match of /:\s*word\b/ at the start of s, 0 when it does
\* not match there.
LiteralMatch(s, word) ==
    IF /\ s # <<>>
       /\ Head(s) = ":"
       /\ StartsWith(Drop(s, 1 + SpaceRun(Tail(s))), word)
       /\ WordBoundaryAt(Drop(s, 1 + SpaceRun(Tail(s)) + Len(word)))
    THEN 1 + SpaceRun(Tail(s)) + Len(word)
    ELSE 0

RECURSIVE ReplaceLiteral(_, _, _)
\* s.replace(/:\s*word\b/g, ": " + repl)
ReplaceLiteral(s, word, repl) ==
    IF s = <<>> THEN <<>>
    ELSE IF LiteralMatch(s, word) # 0
    THEN <<":", " ">> \o repl \o ReplaceLiteral(Drop(s, LiteralMatch(s, word)), word, repl)
    ELSE <<Head(s)>> \o ReplaceLiteral(Tail(s), word, repl)

PyTrue == <<"T", "r", "u", "e">>
PyFalse == <<"F", "a", "l", "s", "e">>
PyNone == <<"N", "o", "n", "e">>
JsTrue == <<"t", "r", "u", "e">>
JsFalse == <<"f", "a", "l", "s", "e">>
JsNull == <<"n", "u", "l", "l">>

\* The three replace calls the Swagger override applies to a string body.
FixPythonLiterals(s) ==
    ReplaceLiteral(ReplaceLiteral(ReplaceLiteral(s, PyTrue, JsTrue), PyFalse, JsFalse),
                   PyNone, JsNull)

(***************************************************************************)
(* Path matcher: FetchInterceptor.matchPath and extractPathParams          *)
(***************************************************************************)
\* Where the regular expression /\{([^}]+)\}/ matches at the start of t:
\* the index of the closing brace, 0 when it does not match there.
PlaceholderEnd(t) ==
    IF Len(t) >= 3 /\ t[1] = "{" /\ IndexOf(t, "}") >= 3
    THEN IndexOf(t, "}") ELSE 0

RECURSIVE CompilePattern(_)
\* new RegExp(`^${endpointPath.replace(/\{([^}]+)\}/g, '([^/]+)')}$`) as a
\* token list: each placeholder becomes the capture group ([^/]+), every
\* other character is regular-expression source, where "." is the wildcard
\* and letters, digits and "/" stand for themselves.
CompilePattern(t) ==
    IF Len(t) = 0 THEN <<>>
    ELSE IF PlaceholderEnd(t) # 0
    THEN <<[tok |-> "group", ch |-> ""]>> \o CompilePattern(Drop(t, PlaceholderEnd(t)))
    ELSE IF Head(t) = "."
    THEN <<[tok |-> "any", ch |-> ""]>> \o CompilePattern(Tail(t))
    ELSE <<[tok |-> "lit", ch |-> Head(t)]>> \o CompilePattern(Tail(t))

RECURSIVE ParamNames(_)
\* [...endpointPath.matchAll(/\{([^}]+)\}/g)].map(m => m[1])
ParamNames(t) ==
    IF Len(t) = 0 THEN <<>>
    ELSE IF PlaceholderEnd(t) # 0
    THEN <<SubSeq(t, 2, PlaceholderEnd(t) - 1)>> \o ParamNames(Drop(t, PlaceholderEnd(t)))
    ELSE ParamNames(Tail(t))

\* A capture group that also takes "/".
WholeRun(s) == Len(s)

\* The length of the longest prefix of s without "/".
NonSlashRun(s) == IF IndexOf(s, "/") = 0 THEN Len(s) ELSE IndexOf(s, "/") - 1

NoMatch == [matched |-> FALSE, groups |-> <<>>]

RECURSIVE RegexMatch(_, _)
RECURSIVE GroupMatch(_, _, _)
\* Anchored backtracking match of the token list against s; groups are the
\* captures of the first match found, longest capture tried first.
RegexMatch(toks, s) ==
    IF Len(toks) = 0
    THEN IF Len(s) = 0 THEN [matched |-> TRUE, groups |-> <<>>] ELSE NoMatch
    ELSE IF Head(toks).tok = "group"
    THEN GroupMatch(Tail(toks), s, NonSlashRun(s))
    ELSE IF Len(s) = 0 THEN NoMatch
    ELSE IF Head(toks).tok = "any" \/ Head(toks).ch = Head(s)
    THEN RegexMatch(Tail(toks), Tail(s))
    ELSE NoMatch

\* The capture group takes n characters, then n - 1, ... down to 1.
GroupMatch(rest, s, n) ==
    IF n < 1 THEN NoMatch
    ELSE LET r == RegexMatch(rest, Drop(s, n))
         IN  IF r.matched
             THEN [matched |-> TRUE, groups |-> <<SubSeq(s, 1, n)>> \o r.groups]
             ELSE GroupMatch(rest, s, n - 1)

\* params[paramNames[i]] = match[i + 1], in order: a repeated name keeps the
\* last value.
BindParams(names, groups) ==
    [n \in {names[i] : i \in 1..Len(names)} |->
        groups[CHOOSE i \in 1..Len(names) :
                  names[i] = n /\ \A j \in (i + 1)..Len(names) : names[j] # n]]

\* paramNames.forEach((paramName, index) => { if (match[index + 1]) ... })
BindParamsTruthy(names, groups) ==
    LET truthy == {i \in 1..Len(names) : groups[i] # <<>>}
    IN  [n \in {names[i] : i \in truthy} |->
            groups[CHOOSE i \in truthy :
                      names[i] = n /\ \A j \in truthy : names[j] = n => j <= i]]

NoParams == [matched |-> FALSE, params |-> <<>>]

\* FetchInterceptor.matchPath(requestPath, endpointPath): null or the params.
MatchPath(reqPath, epPath) ==
    LET m == RegexMatch(CompilePattern(epPath), reqPath)
    IN  IF m.matched
        THEN [matched |-> TRUE, params |-> BindParams(ParamNames(epPath), m.groups)]
        ELSE NoParams

\* extractPathParams(currentPath, endpointPath): the params, {} on no match;
\* a capture is stored only when it is truthy (non-empty).
ExtractPathParams(currentPath, epPath) ==
    LET m == RegexMatch(CompilePattern(epPath), currentPath)
    IN  IF m.matched THEN BindParamsTruthy(ParamNames(epPath), m.groups) ELSE <<>>

\* The segments path templates and request paths are drawn from.
TemplateSegs == {<<"u">>, <<"{", "i", "d", "}">>, <<"{", "n", "}">>,
                 <<"v", ".", "1">>, <<>>}
PathSegs == {<<"u">>, <<"U">>, <<"7">>, <<"v", ".", "1">>, <<"v", "x", "1">>, <<>>}

SegLists(segs) == UNION {[1..n -> segs] : n \in 1..MaxSegs}

Templates == {JoinSegs(l) : l \in SegLists(TemplateSegs)}
Paths == {JoinSegs(l) : l \in SegLists(PathSegs)}

\* matchPath is applied to the pair.
DoMatchPath ==
    /\ matchOut.by = "none"
    /\ matchOut' = [by |-> "matchPath",
                    matched |-> MatchPath(requestPath, endpointPath).matched,
                    params |-> MatchPath(requestPath, endpointPath).params]
    /\ UNCHANGED <<endpointPath, requestPath>>
    /\ UNCHANGED <<lifeVars, backendVars, callVars, fetchVars,
                 pageVars>>

\* extractPathParams is applied to the pair.
DoExtractPathParams ==
    /\ matchOut.by = "none"
    /\ matchOut' = [by |-> "extractPathParams",
                    matched |-> ExtractPathParams(requestPath, endpointPath) # <<>>,
                    params |-> ExtractPathParams(requestPath, endpointPath)]
    /\ UNCHANGED <<endpointPath, requestPath>>
    /\ UNCHANGED <<lifeVars, backendVars, callVars, fetchVars,
                 pageVars>>


(***************************************************************************)
(* Session lifecycle: Bridge.initialize / PyodideEngine.initialize         *)
(***************************************************************************)
Callers == 1..NumCallers
Loaders == 1..MaxLoaders
Kinds == {"Bridge", "Engine"}
Stages == {"load", "persist", "install", "scaffold"}

\* The stage that follows a stage of _performInitialization.
NextStage(s) ==
    CASE s = "load" -> "persist"
      [] s = "persist" -> "install"
      [] s = "install" -> "scaffold"
      [] s = "scaffold" -> "fulfilled"

\* Whether a failure of the stage escapes the stage's own try/catch.
\* Bridge: _setupPersistence and _installPackages swallow their errors.
\* Engine: setupPersistentFileSystem swallows; loadEssentialPackages and
\* installRealFastAPI do not.
StageThrows(k, s) ==
    CASE s = "load" -> TRUE
      [] s = "persist" -> FALSE
      [] s = "install" -> (k = "Engine")
      [] s = "scaffold" -> TRUE

RunSettled(r) == runs[r].pc \in {"fulfilled", "rejected"}

\* The phase of the session as the fields encode it.
Phase ==
    IF isInitialized THEN "ready"
    ELSE IF initPromise = 0 THEN "uninitialized"
    ELSE IF runs[initPromise].pc = "rejected" THEN "failed"
    ELSE "initializing"

\* initialize() without the in-flight guard.
InitializeNoGuard(c) ==
    /\ callers[c].pc = "idle"
    /\ IF isInitialized
       THEN /\ callers' = [callers EXCEPT ![c] =
                   [pc |-> "done", promise |-> 0, calledIn |-> Phase,
                    started |-> FALSE, result |-> "fulfilled"]]
            /\ UNCHANGED <<initPromise, runs>>
       ELSE /\ Len(runs) < MaxRuns
            /\ runs' = Append(runs, [pc |-> "load", failed |-> {}])
            /\ initPromise' = Len(runs) + 1
            /\ callers' = [callers EXCEPT ![c] =
                   [pc |-> "waiting", promise |-> Len(runs) + 1,
                    calledIn |-> Phase, started |-> TRUE, result |-> "none"]]
    /\ UNCHANGED <<kind, isInitialized, pyodide, stepCount, loaders>>
    /\ UNCHANGED <<matchVars, backendVars, callVars, fetchVars,
                 pageVars>>

\* Caller c calls initialize().
Initialize(c) ==
    /\ callers[c].pc = "idle"
    /\ IF isInitialized
       THEN \* if (this.isInitialized) return;
            /\ callers' = [callers EXCEPT ![c] =
                   [pc |-> "done", promise |-> 0, calledIn |-> Phase,
                    started |-> FALSE, result |-> "fulfilled"]]
            /\ UNCHANGED <<initPromise, runs>>
       ELSE IF initPromise # 0
       THEN \* if (this.initPromise) return this.initPromise;
            /\ callers' = [callers EXCEPT ![c] =
                   [pc |-> "waiting", promise |-> initPromise,
                    calledIn |-> Phase, started |-> FALSE, result |-> "none"]]
            /\ UNCHANGED <<initPromise, runs>>
       ELSE \* this.initPromise = this._performInitialization();
            /\ Len(runs) < MaxRuns
            /\ runs' = Append(runs, [pc |-> "load", failed |-> {}])
            /\ initPromise' = Len(runs) + 1
            /\ callers' = [callers EXCEPT ![c] =
                   [pc |-> "waiting", promise |-> Len(runs) + 1,
                    calledIn |-> Phase, started |-> TRUE, result |-> "none"]]
    /\ UNCHANGED <<kind, isInitialized, pyodide, stepCount, loaders>>
    /\ UNCHANGED <<matchVars, backendVars, callVars, fetchVars,
                 pageVars>>

\* One stage of run r completes, successfully or not; the run remembers the
\* stages that failed.
\* The last stage sets isInitialized and fulfils the promise.
PerformStage(r, ok) ==
    /\ r \in 1..Len(runs)
    /\ runs[r].pc \in Stages
    /\ LET s == runs[r].pc
           failed == ~ok /\ StageThrows(kind, s)
           next == IF failed THEN "rejected" ELSE NextStage(s)
       IN  /\ stepCount' = [stepCount EXCEPT ![s] = @ + 1]
           /\ runs' = [runs EXCEPT ![r].pc = next,
                                   ![r].failed = IF ok THEN @ ELSE @ \cup {s}]
           /\ pyodide' = IF s = "load" /\ ok THEN stepCount[s] + 1 ELSE pyodide
           /\ isInitialized' = IF next = "fulfilled" THEN TRUE ELSE isInitialized
    /\ UNCHANGED <<kind, initPromise, callers, loaders>>
    /\ UNCHANGED <<matchVars, backendVars, callVars, fetchVars,
                 pageVars>>

\* The promise a caller awaits has settled: the caller observes its outcome.
Settle(c) ==
    /\ callers[c].pc = "waiting"
    /\ RunSettled(callers[c].promise)
    /\ callers' = [callers EXCEPT ![c].pc = "done",
                                  ![c].result =
                       IF runs[callers[c].promise].pc = "fulfilled"
                       THEN "fulfilled" ELSE "rejected"]
    /\ UNCHANGED <<kind, isInitialized, initPromise, pyodide, runs, stepCount, loaders>>
    /\ UNCHANGED <<matchVars, backendVars, callVars, fetchVars,
                 pageVars>>

(***************************************************************************)
(* Operation registry: Bridge.loadBackend / PyodideEngine.loadUserCode     *)
(***************************************************************************)
PathUsersId == <<"/", "u", "s", "e", "r", "s", "/", "{", "i", "d", "}">>
PathUsers == <<"/", "u", "s", "e", "r", "s">>

OpGetUser == [operationId |-> "get_user", method |-> "GET", path |-> PathUsersId]
OpCreateUser == [operationId |-> "create_user", method |-> "POST", path |-> PathUsers]
OpListUsers == [operationId |-> "list_users", method |-> "GET", path |-> PathUsers]
OpGetUserByName ==
    [operationId |-> "get_user_by_name", method |-> "GET",
     path |-> <<"/", "u", "s", "e", "r", "s", "/", "{", "n", "a", "m", "e", "}">>]

\* The operation lists of the backend sources that can be loaded. Source 3
\* registers two GET operations whose templates match the same paths, after
\* a POST operation on the path of the GET that follows it. Source 4 names
\* its path parameter "name".
Backend(b) ==
    CASE b = 1 -> <<OpGetUser>>
      [] b = 2 -> <<OpCreateUser, OpGetUser>>
      [] b = 3 -> <<OpCreateUser, OpListUsers, OpGetUser, OpGetUserByName>>
      [] b = 4 -> <<OpCreateUser, OpGetUserByName>>

Sources == {1, 2}

NoPersist ==
    [done |-> FALSE, flushOk |-> TRUE, attempted |-> FALSE,
     settled |-> [state |-> "none", flushed |-> FALSE, events |-> <<>>]]

NoLoad == [done |-> FALSE, b |-> 0, format |-> "", ok |-> FALSE, state |-> "none",
           returned |-> <<>>]

OperationIds == {"get_user", "create_user", "no_such_op"}

\* The module that "from app_main import create_app" binds when source b is
\* first on sys.path: the module sys.modules already holds, if any.
ImportAppMain(b) == IF appMain # 0 THEN appMain ELSE b

\* Bridge.loadBackend(source, format) on an initialized bridge. The Python
\* of _loadFromDirectory catches a failing import or create_app itself, so
\* the load then keeps the runtime-side bridge of the previous load; the
\* "eszip" format and unknown formats throw before anything is assigned.
BridgeLoadBackend(b, format, ok) ==
    /\ kind = "Bridge"
    /\ isInitialized
    /\ pyodide # 0
    /\ IF format = "directory"
       THEN /\ appMain' = IF ok THEN ImportAppMain(b) ELSE appMain
            /\ pyBridge' = IF ok THEN Backend(appMain') ELSE pyBridge
            /\ endpoints' = pyBridge'
            /\ backendLoaded' = TRUE
            /\ lastLoad' = [done |-> TRUE, b |-> b, format |-> format, ok |-> ok,
                            state |-> "resolved", returned |-> endpoints']
       ELSE /\ UNCHANGED <<pyBridge, endpoints, backendLoaded, appMain>>
            /\ lastLoad' = [done |-> TRUE, b |-> b, format |-> format, ok |-> FALSE,
                            state |-> "rejected", returned |-> <<>>]
    /\ UNCHANGED codeHash

\* PyodideEngine.loadUserCode(code): resetFastAPIBridge, then
\* PyodideEndpointExecutor.loadUserCode, then a save.
EngineLoadUserCode(b, ok) ==
    /\ kind = "Engine"
    /\ isInitialized
    /\ UNCHANGED appMain
    /\ lastLoad' = [done |-> TRUE, b |-> b, format |-> "directory", ok |-> ok,
                    state |-> IF (backendLoaded /\ codeHash = b) \/ ok
                              THEN "resolved" ELSE "rejected",
                    returned |-> <<>>]
    /\ IF backendLoaded /\ codeHash = b
       THEN \* "User code already loaded (cached)": only the reset has run
            /\ pyBridge' = <<>>
            /\ UNCHANGED <<endpoints, backendLoaded, codeHash>>
       ELSE IF ok
       THEN /\ pyBridge' = Backend(b)
            /\ endpoints' = Backend(b)
            /\ backendLoaded' = TRUE
            /\ codeHash' = b
       ELSE \* runPythonAsync(pythonCode) throws after the endpoints were cleared
            /\ pyBridge' = <<>>
            /\ endpoints' = <<>>
            /\ UNCHANGED <<backendLoaded, codeHash>>

\* A backend is loaded into the session.
LoadBackend(b, format, ok) ==
    /\ ~lastFetch.done /\ ~lastCall.done /\ ~lastLoad.done
    /\ \/ BridgeLoadBackend(b, format, ok)
       \/ (format = "directory" /\ EngineLoadUserCode(b, ok))
    /\ UNCHANGED <<lifeVars, matchVars, lastCall, lastPersist, fetchVars,
                 pageVars>>

\* An on-demand initialization that starts a run of its own whenever the
\* session is not ready.
LoadBackendBeginNoGuard(l) ==
    /\ kind = "Bridge"
    /\ loaders[l].pc = "idle"
    /\ IF isInitialized
       THEN /\ loaders' = [loaders EXCEPT ![l] =
                   [pc |-> "loading", promise |-> 0, calledIn |-> Phase,
                    started |-> FALSE, result |-> "none"]]
            /\ UNCHANGED <<initPromise, runs>>
       ELSE /\ Len(runs) < MaxRuns
            /\ runs' = Append(runs, [pc |-> "load", failed |-> {}])
            /\ initPromise' = Len(runs) + 1
            /\ loaders' = [loaders EXCEPT ![l] =
                   [pc |-> "awaiting", promise |-> Len(runs) + 1,
                    calledIn |-> Phase, started |-> TRUE, result |-> "none"]]
    /\ UNCHANGED <<kind, isInitialized, pyodide, stepCount, callers>>
    /\ UNCHANGED <<matchVars, backendVars, callVars, fetchVars,
                 pageVars>>

\* Caller l calls bridge.loadBackend(source, format):
\* if (!this.isInitialized) await this.initialize();
LoadBackendBegin(l) ==
    /\ kind = "Bridge"
    /\ loaders[l].pc = "idle"
    /\ IF isInitialized
       THEN /\ loaders' = [loaders EXCEPT ![l] =
                   [pc |-> "loading", promise |-> 0, calledIn |-> Phase,
                    started |-> FALSE, result |-> "none"]]
            /\ UNCHANGED <<initPromise, runs>>
       ELSE IF initPromise # 0
       THEN \* initialize() returns the promise in flight
            /\ loaders' = [loaders EXCEPT ![l] =
                   [pc |-> "awaiting", promise |-> initPromise, calledIn |-> Phase,
                    started |-> FALSE, result |-> "none"]]
            /\ UNCHANGED <<initPromise, runs>>
       ELSE \* initialize() starts _performInitialization()
            /\ Len(runs) < MaxRuns
            /\ runs' = Append(runs, [pc |-> "load", failed |-> {}])
            /\ initPromise' = Len(runs) + 1
            /\ loaders' = [loaders EXCEPT ![l] =
                   [pc |-> "awaiting", promise |-> Len(runs) + 1,
                    calledIn |-> Phase, started |-> TRUE, result |-> "none"]]
    /\ UNCHANGED <<kind, isInitialized, pyodide, stepCount, callers>>
    /\ UNCHANGED <<matchVars, backendVars, callVars, fetchVars,
                 pageVars>>

\* The initialization loadBackend awaits has settled: a rejection leaves
\* loadBackend, otherwise the load goes on.
LoadBackendResume(l) ==
    /\ loaders[l].pc = "awaiting"
    /\ RunSettled(loaders[l].promise)
    /\ loaders' = [loaders EXCEPT
           ![l].pc = IF runs[loaders[l].promise].pc = "fulfilled"
                     THEN "loading" ELSE "done",
           ![l].result = IF runs[loaders[l].promise].pc = "fulfilled"
                         THEN "none" ELSE "rejected"]
    /\ UNCHANGED <<kind, isInitialized, initPromise, pyodide, runs, stepCount, callers>>
    /\ UNCHANGED <<matchVars, backendVars, callVars, fetchVars,
                 pageVars>>

\* The rest of loadBackend: the runtime check and the load itself.
LoadBackendFinish(l, b, format, ok) ==
    /\ loaders[l].pc = "loading"
    /\ IF pyodide = 0
       THEN /\ loaders' = [loaders EXCEPT ![l].pc = "done", ![l].result = "rejected"]
            /\ UNCHANGED <<backendVars, lastLoad>>
       ELSE /\ BridgeLoadBackend(b, format, ok)
            /\ loaders' = [loaders EXCEPT ![l].pc = "done",
                                          ![l].result = lastLoad'.state]
    /\ UNCHANGED <<kind, isInitialized, initPromise, pyodide, runs, stepCount, callers>>
    /\ UNCHANGED <<matchVars, lastCall, lastPersist, fetchVars,
                 pageVars>>

\* The caller has consumed the outcome of its load.
LoadReturn ==
    /\ lastLoad.done
    /\ lastLoad' = NoLoad
    /\ UNCHANGED <<lifeVars, matchVars, backendVars, lastCall, lastPersist, fetchVars,
                 pageVars>>

(***************************************************************************)
(* Bridge.call                                                             *)
(***************************************************************************)
\* CallError.statusCode when the constructor was given none (undefined).
NoStatus == -1

\* What the runtime does with one invocation: it returns
\* {content, status_code} (status_code possibly missing) or raises.
RuntimeOutcomes ==
    [kind : {"return"}, status : {200, 201, 400, 404, 500, NoStatus}]
        \cup {[kind |-> "raise", status |-> NoStatus]}

\* The runtime outcomes intercepted requests are answered with.
FetchOutcomes == {rt \in RuntimeOutcomes : rt.status \in {200, 404, NoStatus}}

\* The payload the runtime returns with a status.
Content(rt) == <<"content", rt.status>>

NoError == [name |-> "", operationId |-> "", statusCode |-> NoStatus, details |-> <<>>]

CallError(op, status, details) ==
    [name |-> "CallError", operationId |-> op, statusCode |-> status, details |-> details]

Resolved(value, events) ==
    [state |-> "resolved", value |-> value, error |-> NoError, events |-> events]

Rejected(error, events) ==
    [state |-> "rejected", value |-> <<>>, error |-> error, events |-> events]

\* A status test that lets server errors through.
IsFailureStatusClientOnly(status) == status >= 400 /\ status < 500

\* apiResponse.status_code >= 400
IsFailureStatus(status) == status >= 400

\* A call that emits "call-start" before it tests its preconditions.
BridgeCallStartFirst(op, rt) ==
    IF ~backendLoaded \/ pyodide = 0
    THEN Rejected(CallError(op, NoStatus, <<>>), <<"call-start">>)
    ELSE IF rt.kind = "raise"
    THEN Rejected(CallError(op, NoStatus, <<>>), <<"call-start", "call-error">>)
    ELSE IF IsFailureStatus(rt.status)
    THEN Rejected(CallError(op, rt.status, Content(rt)), <<"call-start", "call-error">>)
    ELSE Resolved(Content(rt), <<"call-start", "call-end">>)

\* Bridge.call(operationId, params) with the runtime behaving as rt.
BridgeCall(op, rt) ==
    IF ~backendLoaded
    THEN Rejected(CallError(op, NoStatus, <<>>), <<>>)
    ELSE IF pyodide = 0
    THEN Rejected(CallError(op, NoStatus, <<>>), <<>>)
    ELSE IF rt.kind = "raise"
    THEN Rejected(CallError(op, NoStatus, <<>>), <<"call-start", "call-error">>)
    ELSE IF IsFailureStatus(rt.status)
    THEN Rejected(CallError(op, rt.status, Content(rt)), <<"call-start", "call-error">>)
    ELSE Resolved(Content(rt), <<"call-start", "call-end">>)

NoCall == [op |-> "", rt |-> [kind |-> "none", status |-> NoStatus],
           settled |-> Resolved(<<>>, <<>>), done |-> FALSE]

\* A caller awaits bridge.call(op, params).
Call(op, rt) ==
    /\ kind = "Bridge"
    /\ ~lastFetch.done /\ ~lastCall.done /\ ~lastLoad.done
    /\ lastCall' = [op |-> op, rt |-> rt, settled |-> BridgeCall(op, rt), done |-> TRUE]
    /\ UNCHANGED <<lifeVars, matchVars, backendVars, lastLoad, lastPersist, fetchVars,
                 pageVars>>

(***************************************************************************)
(* Fetch interception: FetchInterceptor and the PyodideSwaggerUI override  *)
(***************************************************************************)
ApiPrefix == <<"/", "a", "p", "i">>
Http == <<"h", "t", "t", "p">>
DocsUrl == <<"/", "d", "o", "c", "s">>
OpenApiUrl == <<"/", "o", "p", "e", "n", "a", "p", "i", ".", "j", "s", "o", "n">>
RedocUrl == <<"/", "r", "e", "d", "o", "c">>
SwaggerBase == <<"/", "a", "p", "i", "/", "b", "a", "c", "k", "e", "n", "d">>
SwaggerMark == <<"/", "a", "p", "i", "/", "b", "a", "c", "k", "e", "n", "d", "/">>
HttpScheme == <<"h", "t", "t", "p", ":", "/", "/">>

UrlUser7 == <<"/", "a", "p", "i", "/", "u", "s", "e", "r", "s", "/", "7">>
UrlUser7Orders == <<"/", "a", "p", "i", "/", "u", "s", "e", "r", "s", "/", "7", "/", "o", "r", "d", "e", "r", "s">>
UrlCdn == <<"h", "t", "t", "p", ":", "/", "/", "c", "d", "n", "/", "x", ".", "j", "s">>
UrlFileList == <<"/", "b", "a", "c", "k", "e", "n", "d", "/", "f", ".", "j", "s", "o", "n">>
UrlSwaggerUser7 == <<"/", "a", "p", "i", "/", "b", "a", "c", "k", "e", "n", "d", "/", "u", "s", "e", "r", "s", "/", "7">>
UrlUsers == <<"/", "a", "p", "i", "/", "u", "s", "e", "r", "s">>
UrlUsersQuery == <<"/", "a", "p", "i", "/", "u", "s", "e", "r", "s", "?", "l", "i", "m", "i", "t", "=", "5", "&", "q", "=", "a", "b">>
UrlSwaggerUsersQuery == <<"/", "a", "p", "i", "/", "b", "a", "c", "k", "e", "n", "d", "/", "u", "s", "e", "r", "s", "?", "l", "i", "m", "i", "t", "=", "5", "&", "q", "=", "a", "b">>
UrlSwaggerUsers == <<"/", "a", "p", "i", "/", "b", "a", "c", "k", "e", "n", "d", "/", "u", "s", "e", "r", "s">>

\* The URLs requests are issued for.
Urls == {UrlUser7, UrlUser7Orders, UrlCdn, UrlFileList, UrlSwaggerUser7}

\* fetch(input, init): input is a string, or a Request carrying the URL.
Inputs ==
    [form : {"string"}, url : Urls] \cup [form : {"Request"}, url : {UrlUser7, UrlCdn}]

NoInit == [present |-> FALSE, method |-> "", headers |-> "", body |-> Undefined]

\* The init objects requests are issued with (NoInit: init is undefined).
Inits == {NoInit,
          [present |-> TRUE, method |-> "post", headers |-> "h2",
           body |-> Str(<<"b", "1">>)]}

\* String.prototype.toUpperCase on a method name.
ToUpperCase(m) ==
    CASE m = "get" -> "GET"
      [] m = "post" -> "POST"
      [] OTHER -> m

\* Whether sub occurs in s at index i.
OccursAt(s, sub, i) == i + Len(sub) - 1 <= Len(s) /\ SubSeq(s, i, i + Len(sub) - 1) = sub

\* String.prototype.includes
Includes(s, sub) == \E i \in 1..(Len(s) + 1) : OccursAt(s, sub, i)

\* String.prototype.replace(sub, "") : the first occurrence is removed.
RemoveFirst(s, sub) ==
    IF Includes(s, sub)
    THEN LET i == CHOOSE k \in 1..(Len(s) + 1) :
                      OccursAt(s, sub, k) /\ \A j \in 1..(k - 1) : ~OccursAt(s, sub, j)
         IN  SubSeq(s, 1, i - 1) \o Drop(s, i + Len(sub) - 1)
    ELSE s

\* url.split('?')[0]
BeforeQuery(url) ==
    IF IndexOf(url, "?") = 0 THEN url ELSE SubSeq(url, 1, IndexOf(url, "?") - 1)

\* new URL(url, window.location.origin).pathname
Pathname(url) ==
    LET rest == IF StartsWith(url, HttpScheme) THEN Drop(url, Len(HttpScheme)) ELSE url
        path == IF StartsWith(url, HttpScheme)
                THEN IF IndexOf(rest, "/") = 0 THEN <<"/">>
                     ELSE Drop(rest, IndexOf(rest, "/") - 1)
                ELSE rest
    IN  BeforeQuery(path)

\* The configuration new FetchInterceptor(bridge) gets when none is given.
DefaultConfig ==
    [kind |-> "FetchInterceptor", apiPrefix |-> ApiPrefix, baseUrl |-> <<>>,
     interceptRelative |-> TRUE, routeMatcher |-> "default"]

\* The configuration BridgeRouter passes: a custom routeMatcher.
RouterConfig ==
    [kind |-> "FetchInterceptor", apiPrefix |-> ApiPrefix, baseUrl |-> <<>>,
     interceptRelative |-> TRUE, routeMatcher |-> "router"]

\* The fetch override of the PyodideSwaggerUI effect.
SwaggerConfig ==
    [kind |-> "Swagger", apiPrefix |-> SwaggerBase, baseUrl |-> <<>>,
     interceptRelative |-> FALSE, routeMatcher |-> "swagger"]

Configs(k) == IF k = "Bridge" THEN {DefaultConfig, RouterConfig} ELSE {SwaggerConfig}

\* FetchInterceptor.defaultRouteMatcher
DefaultRouteMatcher(cfg, url) ==
    IF cfg.apiPrefix # <<>> /\ StartsWith(url, cfg.apiPrefix) THEN TRUE
    ELSE IF cfg.baseUrl # <<>> /\ StartsWith(url, cfg.baseUrl) THEN TRUE
    ELSE IF cfg.interceptRelative /\ ~StartsWith(url, Http) THEN TRUE
    ELSE FALSE

\* config.routeMatcher(url); the Swagger override tests url.includes.
RouteMatcher(cfg, url) ==
    CASE cfg.routeMatcher = "default" -> DefaultRouteMatcher(cfg, url)
      [] cfg.routeMatcher = "router" ->
            StartsWith(url, cfg.apiPrefix) \/ url = DocsUrl \/ url = OpenApiUrl
                \/ url = RedocUrl
      [] cfg.routeMatcher = "swagger" -> Includes(url, SwaggerMark)

\* FetchInterceptor.cleanUrl
CleanUrl(cfg, url) ==
    LET u1 == IF cfg.baseUrl # <<>> /\ StartsWith(url, cfg.baseUrl)
              THEN Drop(url, Len(cfg.baseUrl)) ELSE url
        u2 == IF cfg.apiPrefix # <<>> /\ StartsWith(u1, cfg.apiPrefix)
              THEN LET cut == Drop(u1, Len(cfg.apiPrefix))
                   IN  IF StartsWith(cut, <<"/">>) THEN cut ELSE <<"/">> \o cut
              ELSE u1
    IN  BeforeQuery(u2)

NoEndpointMatch == [found |-> FALSE, endpoint |-> OpGetUser, pathParams |-> <<>>]

\* The result of a lookup that found endpoint i of the registry.
FoundAt(i, ms) == [found |-> TRUE, endpoint |-> endpoints[i], pathParams |-> ms[i].params]

\* A lookup that returns the last matching endpoint of the registry.
LastMatch(ms, methods, method) ==
    LET hits == {i \in DOMAIN ms : methods[i] = method /\ ms[i].matched}
    IN  IF hits = {} THEN NoEndpointMatch
        ELSE FoundAt(CHOOSE k \in hits : \A j \in hits : k >= j, ms)

\* The first endpoint, in registry order, whose method is the request's and
\* whose path match ms[i] succeeded.
FirstMatch(ms, methods, method) ==
    LET hits == {i \in DOMAIN ms : methods[i] = method /\ ms[i].matched}
    IN  IF hits = {} THEN NoEndpointMatch
        ELSE FoundAt(CHOOSE k \in hits : \A j \in hits : k <= j, ms)

\* FetchInterceptor.findEndpointMatch: the first endpoint, in registry order,
\* of the request's method whose cleaned path matches.
FindEndpointMatch(cfg, path, method) ==
    FirstMatch([i \in 1..Len(endpoints) |->
                   MatchPath(path, CleanUrl(cfg, endpoints[i].path))],
               [i \in 1..Len(endpoints) |-> ToUpperCase(endpoints[i].method)],
               method)

\* The Swagger override's lookup, endpoints.find(regex.test && ep.method ===
\* method), and the path parameters it then extracts for the endpoint found.
SwaggerFindEndpoint(pathname, method) ==
    FirstMatch([i \in 1..Len(endpoints) |->
                   [matched |-> MatchPath(pathname, endpoints[i].path).matched,
                    params |-> ExtractPathParams(pathname, endpoints[i].path)]],
               [i \in 1..Len(endpoints) |-> endpoints[i].method],
               method)

\* JSON.stringify of a value, as the body of a Response.
Json(x) == <<"json", x>>

\* new Response(body, {status}) built by an interceptor.
Synthetic(status, body) ==
    [outcome |-> "response", status |-> status, body |-> body, synthetic |-> TRUE,
     hops |-> <<>>, native |-> <<>>]

\* The native primitive: a Response from the network, or a transport failure.
NativeFetch(input, init, net) ==
    [outcome |-> IF net = "throw" THEN "throw" ELSE "response",
     status |-> IF net = "throw" THEN NoStatus ELSE 200,
     body |-> <<"network">>, synthetic |-> FALSE,
     hops |-> <<>>, native |-> <<[input |-> input, init |-> init]>>]

\* FetchInterceptor.createResponse(data)
CreateResponse(data) == Synthetic(200, Json(data))

\* The method of a request: init?.method?.toUpperCase() || 'GET'
RequestMethod(init) ==
    IF init.present /\ init.method # "" THEN ToUpperCase(init.method) ELSE "GET"

Threw(calls) == [threw |-> TRUE, calls |-> calls, response |-> Synthetic(NoStatus, <<>>)]
Returned(calls, response) == [threw |-> FALSE, calls |-> calls, response |-> response]

KeyQueryParams == <<"q", "u", "e", "r", "y", "P", "a", "r", "a", "m", "s">>
KeyBody == <<"b", "o", "d", "y">>
KeyId == <<"i", "d">>
SuffixId == <<"_", "i", "d">>

\* String.prototype.endsWith
EndsWith(s, suffix) ==
    Len(suffix) <= Len(s) /\ SubSeq(s, Len(s) - Len(suffix) + 1, Len(s)) = suffix

\* init?.body
RequestBody(init) == IF init.present THEN init.body ELSE Undefined

\* match?.pathParams of a lookup, as the object matchPath filled.
MatchParams(cfg, m) ==
    IF m.found
    THEN ParamsFrom(ParamNames(CleanUrl(cfg, m.endpoint.path)), m.pathParams, EmptyObject)
    ELSE EmptyObject

\* if (Object.keys(queryParams).length > 0) params.queryParams = queryParams
WithQuery(params, queryParams) ==
    IF queryParams.items # <<>> THEN ObjSet(params, KeyQueryParams, queryParams)
    ELSE params

\* The methods whose body extractParameters reads.
BodyMethods == {"POST", "PUT", "PATCH"}

\* params.body: JSON.parse of a string body, the body itself when that
\* throws or when the body is not a string.
WithBody(params, endpoint, body) ==
    IF Truthy(body) /\ ToUpperCase(endpoint.method) \in BodyMethods
    THEN ObjSet(params, KeyBody,
                IF body.t = "string" THEN ParsedOr(JsonParse(body.s), body) ELSE body)
    ELSE params

\* FetchInterceptor.extractParameters(url, endpoint, init): the path
\* parameters of a second lookup, the query parameters of url, the body.
ExtractParameters(cfg, url, endpoint, init) ==
    WithBody(WithQuery(MatchParams(cfg, FindEndpointMatch(cfg, CleanUrl(cfg, url),
                                                          ToUpperCase(endpoint.method))),
                       SearchParams(url)),
             endpoint, RequestBody(init))

\* A classification that files no key under the path parameters.
ClassifyNoPath(key, value, acc) ==
    IF IsObject(value)
    THEN [acc EXCEPT !.body = value]
    ELSE [acc EXCEPT !.queryParams = ObjSet(@, key, value)]

\* One entry of Object.entries(params) in Bridge._extractParams.
Classify(key, value, acc) ==
    IF EndsWith(key, SuffixId) \/ key = KeyId
    THEN [acc EXCEPT !.pathParams = ObjSet(@, key, value)]
    ELSE IF IsObject(value)
    THEN [acc EXCEPT !.body = value]
    ELSE [acc EXCEPT !.queryParams = ObjSet(@, key, value)]

RECURSIVE ExtractFrom(_, _, _)
ExtractFrom(entries, i, acc) ==
    IF i > Len(entries) THEN acc
    ELSE ExtractFrom(entries, i + 1, Classify(entries[i].s, entries[i].items[1], acc))

\* Bridge._extractParams(operationId, params)
ExtractParams(params) ==
    ExtractFrom(params.items, 1,
                [pathParams |-> EmptyObject, queryParams |-> EmptyObject, body |-> JNull])

\* One call of bridge.call / executeEndpoint made for a request: the
\* CallParams given to bridge.call, and the path parameters, query
\* parameters and body the runtime's invoke is called with (invoked: the
\* call got as far as the runtime).
CallRecord(by, op, params, x, invoked) ==
    [by |-> by, operationId |-> op, params |-> params, pathParams |-> x.pathParams,
     queryParams |-> x.queryParams, body |-> x.body, invoked |-> invoked]

\* await this.bridge.call(...) then createResponse: a rejection propagates.
BridgeAnswer(calls, result) ==
    IF result.state = "rejected" THEN Threw(calls)
    ELSE Returned(calls, CreateResponse(result.value))

\* const result = await this.bridge.call(operationId, params)
HandleCall(op, params, rt) ==
    BridgeAnswer(<<CallRecord("FetchInterceptor", op, params, ExtractParams(params),
                              backendLoaded /\ pyodide # 0)>>,
                 BridgeCall(op, rt))

\* handleInterceptedRequest from the lookup on: throws when nothing matched.
HandleMatch(cfg, cleanUrl, init, match, rt) ==
    IF ~match.found THEN Threw(<<>>)
    ELSE HandleCall(match.endpoint.operationId,
                    ExtractParameters(cfg, cleanUrl, match.endpoint, init), rt)

\* FetchInterceptor.handleInterceptedRequest(url, init): throws, or returns
\* the Response made from what bridge.call resolved with.
HandleInterceptedRequest(cfg, url, init, rt) ==
    HandleMatch(cfg, CleanUrl(cfg, url), init,
                FindEndpointMatch(cfg, CleanUrl(cfg, url), RequestMethod(init)), rt)

\* PyodideEngine.executeEndpoint: throws unless the engine is initialized
\* and user code is loaded, and when the runtime raises.
EngineExecuteThrows(rt) == ~isInitialized \/ ~backendLoaded \/ rt.kind = "raise"

\* The status the Swagger override answers with: result.status_code || 200
SwaggerStatus(rt) == IF rt.status = NoStatus \/ rt.status = 0 THEN 200 ELSE rt.status

\* The body the Swagger override hands over: null without a body, the parse
\* of a string body after the literal replacements, the original body when
\* that throws or when the body is not a string.
SwaggerBody(body) ==
    IF ~Truthy(body) THEN JNull
    ELSE IF body.t = "string" THEN ParsedOr(JsonParse(FixPythonLiterals(body.s)), body)
    ELSE body

\* The arguments of pyodideEngine.executeEndpoint.
SwaggerArgs(match, url, init) ==
    [pathParams |-> ParamsFrom(ParamNames(match.endpoint.path), match.pathParams,
                               EmptyObject),
     queryParams |-> SearchParams(url),
     body |-> SwaggerBody(RequestBody(init))]

\* The Response for what executeEndpoint did; the catch answers 500.
SwaggerResult(calls, rt) ==
    IF EngineExecuteThrows(rt)
    THEN Returned(calls, Synthetic(500, Json(<<"detail", "execution error">>)))
    ELSE Returned(calls, Synthetic(SwaggerStatus(rt), Json(Content(rt))))

\* The Swagger override from the lookup on; its catch answers 500.
SwaggerAnswer(match, url, init, rt) ==
    IF ~match.found
    THEN Returned(<<>>, Synthetic(500, Json(<<"detail", "Endpoint not found">>)))
    ELSE SwaggerResult(<<CallRecord("Swagger", match.endpoint.operationId, EmptyObject,
                                    SwaggerArgs(match, url, init),
                                    isInitialized /\ backendLoaded)>>, rt)

\* The try block of the Swagger override.
SwaggerHandle(url, init, rt) ==
    SwaggerAnswer(SwaggerFindEndpoint(RemoveFirst(Pathname(url), SwaggerBase),
                                      RequestMethod(init)), url, init, rt)

\* What the wrapper of an interceptor does with an intercepted URL.
Handle(cfg, url, init, rt) ==
    IF cfg.kind = "Swagger" THEN SwaggerHandle(url, init, rt)
    ELSE HandleInterceptedRequest(cfg, url, init, rt)

\* A forward that passes on the URL string alone.
ForwardArgsUrlOnly(input, init) ==
    [input |-> [form |-> "string", url |-> input.url], init |-> NoInit]

\* The arguments of self.originalFetch.call(globalThis, input, init).
ForwardArgs(input, init) == [input |-> input, init |-> init]

\* The record of one wrapper's part in a fetch: whether it intercepted,
\* whether its handler threw, the bridge calls made, and what it forwarded
\* to the function it saved.
Hop(ref, input, init, hit, h, args) ==
    [by |-> ref, input |-> input, init |-> init, intercepted |-> hit,
     threw |-> hit /\ h.threw,
     calls |-> IF hit THEN h.calls ELSE <<>>,
     forwarded |-> ~hit \/ h.threw,
     fwdInput |-> IF ~hit \/ h.threw THEN args.input ELSE input,
     fwdInit |-> IF ~hit \/ h.threw THEN args.init ELSE init,
     fwdTo |-> icpt[ref].originalFetch]

\* The wrapper returns the handler's answer, or what the saved function
\* returned (or threw) for the forwarded call.
Outcome(hop, answer, down) ==
    IF hop.forwarded
    THEN [down EXCEPT !.hops = <<hop>> \o @]
    ELSE [answer EXCEPT !.hops = <<hop>>]

RECURSIVE CallFetch(_, _, _, _, _)
RECURSIVE Wrapper(_, _, _, _, _, _, _, _)
\* The function ref is called with (input, init): the native primitive when
\* ref = 0, else the wrapper that interceptor ref installed.
CallFetch(ref, input, init, rt, net) ==
    IF ref = 0 THEN NativeFetch(input, init, net)
    ELSE Wrapper(ref, input, init, RouteMatcher(icpt[ref].cfg, input.url),
                 Handle(icpt[ref].cfg, input.url, init, rt),
                 ForwardArgs(input, init), rt, net)

\* The wrapper installed by setupInterceptor / the Swagger effect.
Wrapper(ref, input, init, hit, h, args, rt, net) ==
    Outcome(Hop(ref, input, init, hit, h, args), h.response,
            CallFetch(icpt[ref].originalFetch, args.input, args.init, rt, net))

\* restores counts the restore() calls of an interceptor: 0, 1, or 2 for two
\* and more.
NoInterceptor ==
    [made |-> FALSE, cfg |-> DefaultConfig, originalFetch |-> 0, pre |-> 0, restores |-> 0]

Interceptors == 1..MaxInterceptors

NoFetch == [done |-> FALSE, entry |-> 0, input |-> [form |-> "string", url |-> <<>>],
            init |-> NoInit, rt |-> [kind |-> "none", status |-> NoStatus],
            net |-> "", result |-> Synthetic(NoStatus, <<>>)]

\* No fetch or call result is waiting to be consumed by its caller.
Quiet == ~lastFetch.done /\ ~lastCall.done /\ ~lastLoad.done /\ ~lastPersist.done

\* new FetchInterceptor(bridge, cfg), or the Swagger effect running: the
\* current global fetch is saved and the wrapper takes its place.
Install(i, cfg) ==
    /\ Quiet
    /\ ~icpt[i].made
    /\ \A j \in 1..(i - 1) : icpt[j].made
    /\ cfg \in Configs(kind)
    /\ icpt' = [icpt EXCEPT ![i] =
           [made |-> TRUE, cfg |-> cfg, originalFetch |-> globalFetch,
            pre |-> globalFetch, restores |-> 0]]
    /\ globalFetch' = i
    /\ UNCHANGED <<lifeVars, matchVars, backendVars, callVars, lastFetch,
                 pageVars>>

\* A restore that reinstates the native primitive.
RestoreToNative(i) ==
    /\ Quiet
    /\ icpt[i].made
    /\ globalFetch' = 0
    /\ icpt' = [icpt EXCEPT ![i].restores = IF @ < 2 THEN @ + 1 ELSE @]
    /\ UNCHANGED <<lifeVars, matchVars, backendVars, callVars, lastFetch,
                 pageVars>>

\* interceptor.restore(), or the Swagger effect's cleanup.
Restore(i) ==
    /\ Quiet
    /\ icpt[i].made
    /\ globalFetch' = icpt[i].originalFetch
    /\ icpt' = [icpt EXCEPT ![i].restores = IF @ < 2 THEN @ + 1 ELSE @]
    /\ UNCHANGED <<lifeVars, matchVars, backendVars, callVars, lastFetch,
                 pageVars>>

\* Host code calls fetch(input, init) and the call runs to its result.
Fetch(input, init, rt, net) ==
    /\ Quiet
    /\ lastFetch' = [done |-> TRUE, entry |-> globalFetch, input |-> input,
                     init |-> init, rt |-> rt, net |-> net,
                     result |-> CallFetch(globalFetch, input, init, rt, net)]
    /\ UNCHANGED <<lifeVars, matchVars, backendVars, callVars, globalFetch, icpt,
                 pageVars>>

\* The caller has consumed the result of its fetch.
FetchReturn ==
    /\ lastFetch.done
    /\ lastFetch' = NoFetch
    /\ UNCHANGED <<lifeVars, matchVars, backendVars, callVars, globalFetch, icpt,
                 pageVars>>

\* Bridge.persist() when FS.syncfs ends as flushOk: the catch logs and
\* throws the error again.
BridgePersist(flushOk) ==
    IF pyodide = 0
    THEN [state |-> "resolved", flushed |-> FALSE, events |-> <<>>]
    ELSE IF flushOk
    THEN [state |-> "resolved", flushed |-> TRUE,
          events |-> <<"persist-start", "persist-end">>]
    ELSE [state |-> "rejected", flushed |-> FALSE, events |-> <<"persist-start">>]

\* PyodideEngine.saveState() and the save executeEndpoint triggers:
\* PyodidePersistence.savePersistentState resolves whatever syncfs reports.
EngineSaveState(flushOk) ==
    IF ~isInitialized \/ pyodide = 0
    THEN [state |-> "resolved", flushed |-> FALSE, events |-> <<>>]
    ELSE [state |-> "resolved", flushed |-> flushOk, events |-> <<>>]

\* Host code awaits bridge.persist() / pyodideEngine.saveState().
Persist(flushOk) ==
    /\ Quiet
    /\ lastPersist' = [done |-> TRUE, flushOk |-> flushOk, attempted |-> pyodide # 0,
                       settled |-> IF kind = "Bridge" THEN BridgePersist(flushOk)
                                   ELSE EngineSaveState(flushOk)]
    /\ UNCHANGED <<lifeVars, matchVars, backendVars, lastCall, lastLoad, fetchVars,
                 pageVars>>

\* The caller has consumed the outcome of its persist.
PersistReturn ==
    /\ lastPersist.done
    /\ lastPersist' = NoPersist
    /\ UNCHANGED <<lifeVars, matchVars, backendVars, lastCall, lastLoad, fetchVars,
                 pageVars>>

\* The caller has consumed the outcome of its bridge.call.
CallReturn ==
    /\ lastCall.done
    /\ lastCall' = NoCall
    /\ UNCHANGED <<lifeVars, matchVars, backendVars, lastLoad, lastPersist, fetchVars,
                 pageVars>>

(***************************************************************************)
(* BridgeRouter: the effect that initializes the bridge and installs the   *)
(* interceptor, and the cleanup the effect returns                         *)
(***************************************************************************)
\* The values of the apiPrefix prop, one of the effect's dependencies.
Prefixes == {"/api/v1", "/api/v2"}

\* The component before it is mounted. interceptor is the React state
\* (0 = null), ref is initializationRef.current, pc is the await that
\* initializeBridge is suspended at, cleanup is the value of interceptor the
\* cleanup function of the last effect run closed over, made is the
\* interceptor initializeBridge constructed, and left is the interceptor
\* that was installed when the component was unmounted.
NoRouter ==
    [mounted |-> FALSE, gone |-> FALSE, apiPrefix |-> "/api/v1", ref |-> FALSE,
     pc |-> "idle", interceptor |-> 0, bridgeReady |-> FALSE, error |-> FALSE,
     cleanup |-> 0, made |-> 0, left |-> 0]

\* The body of the effect, run in a render whose state is r: it starts
\* initializeBridge unless the bridge is ready, failed, or being
\* initialized, and returns a cleanup that closes over r.interceptor.
RouterEffect(r) ==
    IF ~r.bridgeReady /\ ~r.error /\ ~r.ref
    THEN [r EXCEPT !.ref = TRUE, !.pc = "initialize", !.cleanup = r.interceptor]
    ELSE [r EXCEPT !.cleanup = r.interceptor]

\* The cleanup of the last effect run: if (interceptor) interceptor.restore().
RouterCleanup ==
    IF router.cleanup # 0
    THEN /\ globalFetch' = icpt[router.cleanup].originalFetch
         /\ icpt' = [icpt EXCEPT ![router.cleanup].restores = IF @ < 2 THEN @ + 1 ELSE @]
    ELSE UNCHANGED <<globalFetch, icpt>>

\* The catch of initializeBridge: setError, setStatus, and the ref is reset.
RouterFailed ==
    [router EXCEPT !.pc = "idle", !.ref = FALSE,
                   !.error = IF router.mounted THEN TRUE ELSE @]

\* The component is mounted and its effect runs.
RouterMount ==
    /\ ~router.mounted
    /\ ~router.gone
    /\ router' = RouterEffect([router EXCEPT !.mounted = TRUE])
    /\ UNCHANGED <<lifeVars, matchVars, backendVars, callVars, fetchVars>>
    /\ UNCHANGED <<provider, execs, requestBody>>

\* The apiPrefix prop changes: React runs the cleanup of the previous effect
\* run and then the effect again.
RouterSetPrefix(p) ==
    /\ router.mounted
    /\ p # router.apiPrefix
    /\ RouterCleanup
    /\ router' = RouterEffect([router EXCEPT !.apiPrefix = p])
    /\ UNCHANGED <<lifeVars, matchVars, backendVars, callVars, lastFetch>>
    /\ UNCHANGED <<provider, execs, requestBody>>

\* The component is unmounted: React runs the cleanup of the last effect run.
RouterUnmount ==
    /\ router.mounted
    /\ RouterCleanup
    /\ router' = [router EXCEPT !.mounted = FALSE, !.gone = TRUE, !.left = router.made]
    /\ UNCHANGED <<lifeVars, matchVars, backendVars, callVars, lastFetch>>
    /\ UNCHANGED <<provider, execs, requestBody>>

\* initializeBridge resumes after await bridge.initialize().
RouterInitialize(ok) ==
    /\ router.pc = "initialize"
    /\ isInitialized' = ok
    /\ initPromise' = 1
    /\ pyodide' = IF ok THEN 1 ELSE 0
    /\ runs' = <<[pc |-> IF ok THEN "fulfilled" ELSE "rejected",
                  failed |-> IF ok THEN {} ELSE {"load"}]>>
    /\ stepCount' = [s \in Stages |-> IF ok \/ s = "load" THEN 1 ELSE 0]
    /\ router' = IF ok THEN [router EXCEPT !.pc = "fileList"] ELSE RouterFailed
    /\ UNCHANGED <<kind, callers, loaders>>
    /\ UNCHANGED <<matchVars, backendVars, callVars, fetchVars>>
    /\ UNCHANGED <<provider, execs, requestBody>>

\* initializeBridge resumes after the file list and the files were fetched
\* and written into the runtime's file system.
RouterFetchFiles(ok) ==
    /\ router.pc = "fileList"
    /\ router' = IF ok THEN [router EXCEPT !.pc = "loadBackend"] ELSE RouterFailed
    /\ UNCHANGED <<lifeVars, matchVars, backendVars, callVars, fetchVars>>
    /\ UNCHANGED <<provider, execs, requestBody>>

\* initializeBridge resumes after await bridge.loadBackend("/backend",
\* "directory") and constructs the FetchInterceptor, whether or not the
\* component is still mounted.
RouterLoadBackend(i, b, ok) ==
    /\ router.pc = "loadBackend"
    /\ ~icpt[i].made
    /\ \A j \in 1..(i - 1) : icpt[j].made
    /\ appMain' = IF ok THEN ImportAppMain(b) ELSE appMain
    /\ pyBridge' = IF ok THEN Backend(appMain') ELSE pyBridge
    /\ endpoints' = pyBridge'
    /\ backendLoaded' = TRUE
    /\ icpt' = [icpt EXCEPT ![i] =
           [made |-> TRUE, cfg |-> RouterConfig, originalFetch |-> globalFetch,
            pre |-> globalFetch, restores |-> 0]]
    /\ globalFetch' = i
    /\ router' = [router EXCEPT !.pc = "idle", !.made = i,
                      !.interceptor = IF router.mounted THEN i ELSE @,
                      !.bridgeReady = IF router.mounted THEN TRUE ELSE @]
    /\ UNCHANGED <<lifeVars, matchVars, codeHash, callVars, lastFetch>>
    /\ UNCHANGED <<provider, execs, requestBody>>

(***************************************************************************)
(* PyodideProvider: the effect on pythonCode and initializePyodide         *)
(***************************************************************************)
\* The component before it is mounted. guard is the module-level
\* globalInitializationGuard, initializing is isInitializingRef.current,
\* lastCode is lastPythonCodeRef.current (0 = ""), timer is the code the
\* pending setTimeout will initialize with (0 = no timer), timerInit is the
\* isInitialized of the render whose initializePyodide the timer calls,
\* strict tells that the development-mode second run of the mount effect is
\* still due, pc and code describe the initialization in flight, invoked
\* holds the codes pyodideEngine.loadUserCode was invoked with, and pending
\* tells that the code of the current render has not been handed to
\* loadUserCode and no error was reported since the effect ran for it.
NoProvider ==
    [mounted |-> FALSE, pythonCode |-> 0, guard |-> FALSE, initializing |-> FALSE,
     isInitialized |-> FALSE, lastCode |-> 0, timer |-> 0, timerInit |-> FALSE,
     strict |-> FALSE, pc |-> "idle", code |-> 0, invoked |-> {}, error |-> FALSE,
     pending |-> FALSE]

\* The body of the effect in a render whose state is p: a timer is set when
\* the provider is not initialized or the code differs from the code last
\* initialized, unless an initialization is in flight; the cleanup of the
\* previous run has cleared the timer that run had set.
ProviderEffect(p) ==
    IF (~p.isInitialized \/ p.lastCode # p.pythonCode) /\ ~p.initializing
    THEN [p EXCEPT !.timer = p.pythonCode, !.timerInit = p.isInitialized]
    ELSE [p EXCEPT !.timer = 0]

\* initializePyodide(code, force) up to its first await; closureInit is the
\* isInitialized the callback closed over.
InitializePyodide(p, code, force, closureInit) ==
    IF p.guard /\ ~force THEN p
    ELSE IF p.initializing /\ ~force THEN p
    ELSE IF closureInit /\ p.lastCode = code /\ ~force THEN p
    ELSE [p EXCEPT !.guard = TRUE, !.initializing = TRUE, !.pc = "initialize",
                   !.code = code, !.error = FALSE]

\* The catch and finally of the initialization: the guard is reset and the
\* error is reported.
ProviderFailed ==
    [provider EXCEPT !.guard = FALSE, !.error = TRUE, !.pending = FALSE,
                     !.initializing = FALSE, !.pc = "idle"]

\* The provider is mounted with pythonCode = c and the effect runs.
ProviderMount(c) ==
    /\ ~provider.mounted
    /\ provider' = ProviderEffect([provider EXCEPT !.mounted = TRUE, !.pythonCode = c,
                                                   !.strict = TRUE, !.pending = TRUE])
    /\ UNCHANGED <<lifeVars, matchVars, backendVars, callVars, fetchVars>>
    /\ UNCHANGED <<router, execs, requestBody>>

\* Development mode runs the mount effect a second time with the same code.
ProviderStrictRerun ==
    /\ provider.mounted
    /\ provider.strict
    /\ provider' = ProviderEffect([provider EXCEPT !.strict = FALSE])
    /\ UNCHANGED <<lifeVars, matchVars, backendVars, callVars, fetchVars>>
    /\ UNCHANGED <<router, execs, requestBody>>

\* The pythonCode prop changes to c and the effect runs again.
ProviderSetCode(c) ==
    /\ provider.mounted
    /\ c # provider.pythonCode
    /\ provider' = ProviderEffect([provider EXCEPT !.pythonCode = c, !.strict = FALSE,
                                                   !.pending = TRUE])
    /\ UNCHANGED <<lifeVars, matchVars, backendVars, callVars, fetchVars>>
    /\ UNCHANGED <<router, execs, requestBody>>

\* The timer fires: initializePyodide(pythonCode).
ProviderTimer ==
    /\ provider.timer # 0
    /\ provider' = InitializePyodide([provider EXCEPT !.timer = 0, !.strict = FALSE],
                                     provider.timer, FALSE, provider.timerInit)
    /\ UNCHANGED <<lifeVars, matchVars, backendVars, callVars, fetchVars>>
    /\ UNCHANGED <<router, execs, requestBody>>

\* The initialization resumes after await pyodideEngine.initialize(): an
\* initialized engine resolves, an engine whose initialization failed
\* rejects again; on success pyodideEngine.loadUserCode(code) is invoked.
ProviderInitialize(ok) ==
    /\ provider.pc = "initialize"
    /\ kind = "Engine"
    /\ IF isInitialized THEN ok ELSE (initPromise # 0 => ~ok)
    /\ IF initPromise = 0
       THEN /\ isInitialized' = ok
            /\ initPromise' = 1
            /\ pyodide' = IF ok THEN 1 ELSE 0
            /\ runs' = <<[pc |-> IF ok THEN "fulfilled" ELSE "rejected",
                          failed |-> IF ok THEN {} ELSE {"load"}]>>
            /\ stepCount' = [s \in Stages |-> IF ok \/ s = "load" THEN 1 ELSE 0]
       ELSE UNCHANGED <<isInitialized, initPromise, pyodide, runs, stepCount>>
    /\ provider' = IF ok
                   THEN [provider EXCEPT !.pc = "load", !.invoked = @ \cup {provider.code},
                             !.pending = IF provider.code = provider.pythonCode
                                         THEN FALSE ELSE @]
                   ELSE ProviderFailed
    /\ UNCHANGED <<kind, callers, loaders>>
    /\ UNCHANGED <<matchVars, backendVars, callVars, fetchVars>>
    /\ UNCHANGED <<router, execs, requestBody>>

\* The initialization resumes after await pyodideEngine.loadUserCode(code).
ProviderLoad(ok) ==
    /\ provider.pc = "load"
    /\ EngineLoadUserCode(provider.code, ok)
    /\ provider' = IF lastLoad'.state = "resolved"
                   THEN [provider EXCEPT !.isInitialized = TRUE,
                             !.lastCode = provider.code, !.initializing = FALSE,
                             !.pc = "idle"]
                   ELSE ProviderFailed
    /\ UNCHANGED <<lifeVars, matchVars, lastCall, lastPersist, fetchVars>>
    /\ UNCHANGED <<router, execs, requestBody>>

(***************************************************************************)
(* PyodideEngine.executeEndpoint: the calls in flight, the runtime global   *)
(* _request_body, and the auto-save                                        *)
(***************************************************************************)
\* The two callers whose executeEndpoint calls overlap.
ExecCallers == {1, 2}

\* The request bodies the calls are given (0 stands for no value).
ExecBodies == {1, 2}

\* The operations the calls name.
ExecOps == {"get_user", "create_user"}

\* A caller with no call in flight. body is the body the call was given,
\* read is the value of _request_body its Python code read, outcome is
\* "returned" or "threw", saved tells that the call awaited
\* savePersistentState.
NoExec ==
    [pc |-> "idle", op |-> "", body |-> 0, read |-> 0, outcome |-> "none",
     saved |-> FALSE]

NoExecs == [e \in ExecCallers |-> NoExec]

\* PYODIDE_CONFIG.MUTATING_METHODS
MutatingMethods == {"POST", "PUT", "PATCH", "DELETE"}

IsMutatingMethod(method) == ToUpperCase(method) \in MutatingMethods

\* The first registered endpoint with the operation id, as a sequence of at
\* most one element.
FindEndpoint(op) ==
    LET found == {i \in 1..Len(endpoints) : endpoints[i].operationId = op}
    IN  IF found = {} THEN <<>>
        ELSE <<endpoints[CHOOSE i \in found : \A j \in found : i <= j]>>

\* A shouldAutoSave that answers yes for every operation.
ShouldAutoSaveAlways(op) == TRUE

\* PyodideEndpointExecutor.shouldAutoSave
ShouldAutoSave(op) ==
    IF FindEndpoint(op) = <<>> THEN FALSE ELSE IsMutatingMethod(FindEndpoint(op)[1].method)

\* Caller e calls pyodideEngine.executeEndpoint(op, ..., body): the engine
\* and the executor check their flags, the executor stores the body in the
\* runtime global and calls runPythonAsync, whose code runs in a later task.
ExecBegin(e, op, body) ==
    /\ kind = "Engine"
    /\ execs[e].pc = "idle"
    /\ IF ~isInitialized \/ ~backendLoaded
       THEN /\ execs' = [execs EXCEPT ![e] =
                   [NoExec EXCEPT !.pc = "done", !.op = op, !.body = body,
                                  !.outcome = "threw"]]
            /\ UNCHANGED requestBody
       ELSE /\ execs' = [execs EXCEPT ![e] =
                   [NoExec EXCEPT !.pc = "scheduled", !.op = op, !.body = body]]
            /\ requestBody' = body
    /\ UNCHANGED <<lifeVars, matchVars, backendVars, callVars, fetchVars>>
    /\ UNCHANGED <<router, provider>>

\* The Python code of call e runs: it reads _request_body from the globals
\* and awaits execute_endpoint; when that returns, executeEndpoint resumes
\* and, for an operation that shouldAutoSave, starts savePersistentState.
ExecPython(e, raised) ==
    /\ execs[e].pc = "scheduled"
    /\ execs' = [execs EXCEPT ![e] =
           [@ EXCEPT !.read = requestBody,
                     !.pc = IF ~raised /\ ShouldAutoSave(execs[e].op)
                            THEN "saving" ELSE "done",
                     !.outcome = IF raised THEN "threw" ELSE "returned"]]
    /\ UNCHANGED <<lifeVars, matchVars, backendVars, callVars, fetchVars>>
    /\ UNCHANGED <<router, provider, requestBody>>

\* savePersistentState settles, whatever syncfs reported, and the result is
\* returned.
ExecSave(e) ==
    /\ execs[e].pc = "saving"
    /\ execs' = [execs EXCEPT ![e] = [@ EXCEPT !.pc = "done", !.saved = TRUE]]
    /\ UNCHANGED <<lifeVars, matchVars, backendVars, callVars, fetchVars>>
    /\ UNCHANGED <<router, provider, requestBody>>

\* The caller has consumed the outcome of its call.
ExecReturn(e) ==
    /\ execs[e].pc = "done"
    /\ execs' = [execs EXCEPT ![e] = NoExec]
    /\ UNCHANGED <<lifeVars, matchVars, backendVars, callVars, fetchVars>>
    /\ UNCHANGED <<router, provider, requestBody>>

(***************************************************************************)
(* Specifications                                                          *)
(***************************************************************************)
MatchPending == [by |-> "none", matched |-> FALSE, params |-> <<>>]

IdleCaller == [pc |-> "idle", promise |-> 0, calledIn |-> "none",
               started |-> FALSE, result |-> "none"]

\* The session before any initialize() call.
ParkLife ==
    /\ kind = "Bridge"
    /\ isInitialized = FALSE
    /\ initPromise = 0
    /\ pyodide = 0
    /\ runs = <<>>
    /\ stepCount = [s \in Stages |-> 0]
    /\ callers = [c \in Callers |-> IdleCaller]
    /\ loaders = [l \in Loaders |-> IdleCaller]

\* The session after one initialize() has completed.
ReadyLife ==
    /\ isInitialized = TRUE
    /\ initPromise = 1
    /\ pyodide = 1
    /\ runs = <<[pc |-> "fulfilled", failed |-> {}]>>
    /\ stepCount = [s \in Stages |-> 1]
    /\ callers = [c \in Callers |->
                     IF c = 1
                     THEN [pc |-> "done", promise |-> 1, calledIn |-> "uninitialized",
                           started |-> TRUE, result |-> "fulfilled"]
                     ELSE IdleCaller]
    /\ loaders = [l \in Loaders |-> IdleCaller]

\* No backend loaded, no call made.
ParkBackend ==
    /\ endpoints = <<>>
    /\ backendLoaded = FALSE
    /\ codeHash = 0
    /\ pyBridge = <<>>
    /\ appMain = 0
    /\ lastCall = NoCall
    /\ lastLoad = NoLoad
    /\ lastPersist = NoPersist

\* The native fetch in place, no interceptor constructed.
ParkFetch ==
    /\ globalFetch = 0
    /\ icpt = [i \in Interceptors |-> NoInterceptor]
    /\ lastFetch = NoFetch

\* No component mounted, no executeEndpoint call in flight.
ParkPage ==
    /\ router = NoRouter
    /\ provider = NoProvider
    /\ execs = NoExecs
    /\ requestBody = 0

\* The matcher harness at rest.
ParkMatch ==
    /\ endpointPath = <<>>
    /\ requestPath = <<>>
    /\ matchOut = MatchPending

InitLife ==
    /\ kind \in Kinds
    /\ isInitialized = FALSE
    /\ initPromise = 0
    /\ pyodide = 0
    /\ runs = <<>>
    /\ stepCount = [s \in Stages |-> 0]
    /\ callers = [c \in Callers |-> IdleCaller]
    /\ loaders = [l \in Loaders |-> IdleCaller]
    /\ ParkMatch
    /\ ParkBackend
    /\ ParkFetch
    /\ ParkPage

NextLife ==
    \/ \E c \in Callers : Initialize(c)
    \/ \E r \in 1..MaxRuns, ok \in BOOLEAN : PerformStage(r, ok)
    \/ \E c \in Callers : Settle(c)
    \/ \E l \in Loaders : LoadBackendBegin(l)
    \/ \E l \in Loaders : LoadBackendResume(l)
    \/ \E l \in Loaders, b \in Sources, ok \in BOOLEAN :
           LoadBackendFinish(l, b, "directory", ok)

SpecLife == InitLife /\ [][NextLife]_vars

InitMatch ==
    /\ endpointPath \in Templates
    /\ requestPath \in Paths
    /\ matchOut = MatchPending
    /\ ParkLife
    /\ ParkBackend
    /\ ParkFetch
    /\ ParkPage

NextMatch ==
    \/ DoMatchPath
    \/ DoExtractPathParams

SpecMatch == InitMatch /\ [][NextMatch]_vars

\* A page whose session is ready: no backend loaded yet, the native fetch in
\* place.
Init ==
    /\ kind \in Kinds
    /\ ReadyLife
    /\ ParkMatch
    /\ ParkBackend
    /\ ParkFetch
    /\ ParkPage

Next ==
    \/ \E b \in Sources, format \in {"directory", "eszip"}, ok \in BOOLEAN :
           LoadBackend(b, format, ok)
    \/ \E op \in OperationIds, rt \in RuntimeOutcomes : Call(op, rt)
    \/ CallReturn
    \/ LoadReturn
    \/ \E i \in Interceptors, cfg \in {DefaultConfig, RouterConfig, SwaggerConfig} :
           Install(i, cfg)
    \/ \E i \in Interceptors : Restore(i)
    \/ \E input \in Inputs, init \in Inits, rt \in FetchOutcomes,
           net \in {"response", "throw"} : Fetch(input, init, rt, net)
    \/ FetchReturn

Spec == Init /\ [][Next]_vars

\* The sources loaded when the requests of SpecRequest are issued.
RequestSources == {1, 3, 4}

\* The request URLs, with and without a query string.
RequestUrls == {UrlUser7, UrlUsers, UrlUser7Orders, UrlSwaggerUser7, UrlSwaggerUsers,
                UrlUsersQuery, UrlSwaggerUsersQuery}

\* Request bodies: JSON, JSON with Python literals after a colon, Python
\* literals as array elements, a word that starts with a literal, a text
\* that is not JSON, and a body that is not a string.
BodyJson == Str(<<"{", "\"", "a", "\"", ":", " ", "t", "r", "u", "e", ",", " ", "\"", "n", "\"", ":", " ", "1", "2", "}">>)
BodyPython == Str(<<"{", "\"", "a", "\"", ":", " ", "T", "r", "u", "e", ",", " ", "\"", "b", "\"", ":", "F", "a", "l", "s", "e", ",", " ", "\"", "c", "\"", ":", " ", " ", "N", "o", "n", "e", "}">>)
BodyPythonArray == Str(<<"[", "T", "r", "u", "e", ",", " ", "N", "o", "n", "e", "]">>)
BodyTrueish == Str(<<"{", "\"", "a", "\"", ":", " ", "\"", "T", "r", "u", "e", "i", "s", "h", "\"", "}">>)
BodyTrueishWord == Str(<<"{", "\"", "a", "\"", ":", " ", "T", "r", "u", "e", "i", "s", "h", "}">>)
BodyMalformed == Str(<<"{", "o", "o", "p", "s">>)
RequestBodies == {BodyJson, BodyPython, BodyPythonArray, BodyTrueish, BodyTrueishWord,
                  BodyMalformed, FormData}

RequestInputs == [form : {"string"}, url : RequestUrls]
RequestInits ==
    {NoInit} \cup [present : {TRUE}, method : {"post"}, headers : {"h2"},
                   body : RequestBodies]

\* A page whose session is ready, with a backend loaded and one interceptor
\* installed over the native fetch.
InitRequest ==
    /\ kind \in Kinds
    /\ ReadyLife
    /\ ParkMatch
    /\ ParkPage
    /\ \E b \in RequestSources :
           /\ endpoints = Backend(b)
           /\ pyBridge = Backend(b)
           /\ codeHash = IF kind = "Engine" THEN b ELSE 0
           /\ appMain = IF kind = "Bridge" THEN b ELSE 0
    /\ backendLoaded = TRUE
    /\ lastCall = NoCall
    /\ lastLoad = NoLoad
    /\ lastPersist = NoPersist
    /\ globalFetch = 1
    /\ \E cfg \in Configs(kind) :
           icpt = [i \in Interceptors |->
                      IF i = 1
                      THEN [made |-> TRUE, cfg |-> cfg, originalFetch |-> 0,
                            pre |-> 0, restores |-> 0]
                      ELSE NoInterceptor]
    /\ lastFetch = NoFetch

NextRequest ==
    \/ \E input \in RequestInputs, init \in RequestInits, rt \in FetchOutcomes :
           Fetch(input, init, rt, "response")
    \/ FetchReturn
    \/ \E flushOk \in BOOLEAN : Persist(flushOk)
    \/ PersistReturn

SpecRequest == InitRequest /\ [][NextRequest]_vars

(***************************************************************************)
(* Claims about the session lifecycle                                      *)
(***************************************************************************)
RunOutcome(r) == IF runs[r].pc = "fulfilled" THEN "fulfilled" ELSE "rejected"

\* C1: for one Bridge (and one PyodideEngine), initialize() calls issued
\* while an initialization is in flight, in any interleaving, make the
\* initialization sequence (runtime load, persistence setup, package
\* install, bridge scaffold) run once: no second run is started and no stage
\* executes twice, a run that completed executed every stage exactly once,
\* every such caller holds the promise of that single run and settles with
\* its outcome, and initialize() called once the session is ready starts
\* nothing and resolves at once.
C1_InitializeRunsOnce ==
    /\ Len(runs) <= 1
    /\ \A s \in Stages : stepCount[s] <= 1
    /\ \A r \in 1..Len(runs) :
          runs[r].pc = "fulfilled" => \A s \in Stages : stepCount[s] = 1
    /\ \A c \in Callers :
          callers[c].calledIn = "initializing" =>
              /\ ~callers[c].started
              /\ callers[c].promise = 1
              /\ callers[c].promise = initPromise
              /\ callers[c].pc = "done" =>
                     /\ RunSettled(1)
                     /\ callers[c].result = RunOutcome(1)
    /\ \A c \in Callers :
          callers[c].calledIn = "ready" =>
              /\ ~callers[c].started
              /\ callers[c].promise = 0
              /\ callers[c].pc = "done"
              /\ callers[c].result = "fulfilled"

\* Two callers joined the in-flight initialization and settled with its
\* outcome, and a third called after the session became ready.
C1_Witness ==
    \E a, b, c \in Callers :
        /\ a # b
        /\ callers[a].started /\ callers[a].pc = "done"
        /\ callers[b].calledIn = "initializing" /\ callers[b].pc = "done"
        /\ callers[c].calledIn = "ready"

\* C2: a failed initialization resets the session to uninitialized: an
\* initialize() call made after an attempt has failed starts a fresh
\* initialization attempt instead of returning the earlier failure.
C2_RetryAfterFailure ==
    \A c \in Callers :
        callers[c].calledIn = "failed" =>
            callers[c].started

\* C18: there is exactly one runtime instance per session: under any
\* interleaving of initialize() and loadBackend() calls on one Bridge
\* (loadBackend initializes on demand), the runtime is loaded at most once
\* and the runtime reference, once set, is never replaced.
C18_OneRuntimeInstance ==
    [][/\ stepCount'["load"] <= 1
       /\ pyodide # 0 => pyodide' = pyodide]_vars

\* A loadBackend() call started the initialization, an initialize() call
\* joined it while it was in flight and another came once the session was
\* ready; all went on with the one runtime and the load has completed.
C18_Witness ==
    /\ kind = "Bridge"
    /\ pyodide = 1
    /\ stepCount["load"] = 1
    /\ \E l \in Loaders :
           /\ loaders[l].started /\ loaders[l].pc = "done"
           /\ loaders[l].result = "resolved"
    /\ \E c, d \in Callers :
           /\ callers[c].calledIn = "initializing"
           /\ callers[c].pc = "done"
           /\ callers[c].result = "fulfilled"
           /\ callers[d].calledIn = "ready"

\* C19: initialize() fails when the runtime fails to load or when a
\* required dependency fails to install: a run in which the load or the
\* install stage failed is rejected, and the session is never ready after a
\* run in which the install stage failed.
C19_FailedInstallFailsInit ==
    \A r \in 1..Len(runs) :
        /\ (runs[r].failed \cap {"load", "install"}) # {} => runs[r].pc = "rejected"
        /\ "install" \in runs[r].failed => ~isInitialized

EntryCfg == icpt[lastFetch.entry].cfg

Intercepted ==
    /\ lastFetch.done
    /\ lastFetch.entry # 0
    /\ RouteMatcher(EntryCfg, lastFetch.input.url)

\* The lookup the entry interceptor makes for the request.
EntryLookup ==
    IF EntryCfg.kind = "Swagger"
    THEN SwaggerFindEndpoint(RemoveFirst(Pathname(lastFetch.input.url), SwaggerBase),
                             RequestMethod(lastFetch.init))
    ELSE FindEndpointMatch(EntryCfg, CleanUrl(EntryCfg, lastFetch.input.url),
                           RequestMethod(lastFetch.init))

\* The request was answered by an interceptor: a Response, made without the
\* native primitive being called.
AnsweredLocally ==
    /\ lastFetch.result.outcome = "response"
    /\ lastFetch.result.synthetic
    /\ lastFetch.result.native = <<>>

\* C3: when an intercepted request matches no registered operation for its
\* method and path, the fetch resolves to a 404-status Response made by the
\* interceptor: the request is not forwarded to the original primitive and
\* no exception reaches the caller.
C3_NoMatchIs404 ==
    (Intercepted /\ ~EntryLookup.found) =>
        /\ AnsweredLocally
        /\ lastFetch.result.status = 404

\* The error raised while the entry interceptor handled the request: none,
\* or the status code it carries (NoStatus when it carries none).
HandlingError ==
    IF ~EntryLookup.found THEN [raised |-> TRUE, statusCode |-> NoStatus]
    ELSE IF EntryCfg.kind = "Swagger"
    THEN [raised |-> EngineExecuteThrows(lastFetch.rt), statusCode |-> NoStatus]
    ELSE [raised |-> BridgeCall(EntryLookup.endpoint.operationId, lastFetch.rt).state
                         = "rejected",
          statusCode |-> BridgeCall(EntryLookup.endpoint.operationId,
                                    lastFetch.rt).error.statusCode]

\* C4: on any error raised while handling an intercepted request, the fetch
\* resolves to a synthetic error Response whose status is the call error's
\* status code if present and 500 otherwise; the exception does not escape
\* and the request is not re-issued through the original primitive.
C4_ErrorIsSyntheticResponse ==
    (Intercepted /\ HandlingError.raised) =>
        /\ AnsweredLocally
        /\ lastFetch.result.status =
               IF HandlingError.statusCode # NoStatus
               THEN HandlingError.statusCode ELSE 500

\* The entry interceptor found the operation and the runtime returned a
\* result for it.
InvocationReturned ==
    /\ Intercepted
    /\ EntryLookup.found
    /\ isInitialized /\ backendLoaded /\ pyodide # 0
    /\ lastFetch.rt.kind = "return"

\* C6: for an invocation whose result has status s, the Response returned by
\* the intercepted fetch has status s (200 when the result has none) and a
\* JSON body with the original payload, and nothing is thrown.
C6_StatusFidelity ==
    InvocationReturned =>
        /\ AnsweredLocally
        /\ lastFetch.result.status =
               IF lastFetch.rt.status = NoStatus THEN 200 ELSE lastFetch.rt.status
        /\ lastFetch.result.body = Json(Content(lastFetch.rt))

\* C7: restore() sets the global fetch to the reference it had before the
\* interceptor was installed, on the first call and on a repeated call; a
\* step that changes the global fetch without constructing an interceptor is
\* such a restore.
C7_RestoreReinstatesSaved ==
    [][/\ \A i \in Interceptors :
              icpt'[i].restores > icpt[i].restores => globalFetch' = icpt[i].pre
       /\ (globalFetch' # globalFetch /\ \A i \in Interceptors :
                                             icpt'[i].made = icpt[i].made) =>
              \E i \in Interceptors : icpt[i].made /\ globalFetch' = icpt[i].pre]_vars

\* An interceptor installed over another one was restored twice and the
\* global fetch is the wrapper that was in place before it.
C7_Witness ==
    \E i \in Interceptors :
        /\ icpt[i].made
        /\ icpt[i].restores = 2
        /\ icpt[i].pre # 0
        /\ globalFetch = icpt[i].pre

\* C8: after any sequence of interceptor installations followed by restore()
\* of every installed interceptor, in any order, the global fetch is the
\* original, never-intercepted primitive.
C8_AllRestoredIsNative ==
    (/\ \E i \in Interceptors : icpt[i].made
     /\ \A i \in Interceptors : icpt[i].made => icpt[i].restores >= 1) =>
        globalFetch = 0

\* The wrapper hops of the completed fetch that did not satisfy routeMatcher.
PassThroughHops ==
    {k \in 1..Len(lastFetch.result.hops) :
        ~RouteMatcher(icpt[lastFetch.result.hops[k].by].cfg,
                      lastFetch.result.hops[k].input.url)}

\* C9: a request whose URL does not satisfy routeMatcher is forwarded to the
\* original fetch the interceptor saved, with its input and init (method,
\* headers, body) unchanged, exactly once, and the bridge is not invoked.
C9_PassThroughUnchanged ==
    lastFetch.done =>
        \A k \in PassThroughHops :
            LET hop == lastFetch.result.hops[k]
                hops == lastFetch.result.hops
            IN  /\ hop.forwarded
                /\ hop.calls = <<>>
                /\ hop.fwdTo = icpt[hop.by].originalFetch
                /\ hop.fwdInput = hop.input
                /\ hop.fwdInit = hop.init
                /\ IF hop.fwdTo = 0
                   THEN /\ k = Len(hops)
                        /\ lastFetch.result.native =
                               <<[input |-> hop.input, init |-> hop.init]>>
                   ELSE /\ k < Len(hops)
                        /\ hops[k + 1].by = hop.fwdTo
                        /\ hops[k + 1].input = hop.input
                        /\ hops[k + 1].init = hop.init

\* A Request object with method, headers and body passed through an
\* interceptor to the native primitive.
C9_Witness ==
    /\ lastFetch.done
    /\ lastFetch.entry # 0
    /\ lastFetch.input.form = "Request"
    /\ lastFetch.init.present
    /\ PassThroughHops # {}
    /\ lastFetch.result.native = <<[input |-> lastFetch.input, init |-> lastFetch.init]>>

(***************************************************************************)
(* Claims about the path matcher                                           *)
(***************************************************************************)
\* A template segment that is exactly one {name} placeholder.
IsPlaceholder(seg) ==
    /\ Len(seg) >= 3
    /\ seg[1] = "{"
    /\ seg[Len(seg)] = "}"
    /\ \A i \in 2..(Len(seg) - 1) : seg[i] \notin {"{", "}"}

PlaceholderName(seg) == SubSeq(seg, 2, Len(seg) - 1)

\* The match the claim describes, segment by segment.
SegmentMatch(reqPath, epPath) ==
    LET ts == SplitSlash(epPath)
        ps == SplitSlash(reqPath)
        holders == {i \in 1..Len(ts) : IsPlaceholder(ts[i])}
    IN  IF /\ Len(ts) = Len(ps)
           /\ \A i \in (1..Len(ts)) \ holders : ts[i] = ps[i]
        THEN [matched |-> TRUE,
              params |-> [n \in {PlaceholderName(ts[i]) : i \in holders} |->
                             ps[CHOOSE i \in holders : PlaceholderName(ts[i]) = n]]]
        ELSE NoParams

\* The pairs the claim speaks about without ambiguity: placeholder names are
\* distinct and no placeholder faces an empty segment.
PlainPair(reqPath, epPath) ==
    LET ts == SplitSlash(epPath)
        ps == SplitSlash(reqPath)
        holders == {i \in 1..Len(ts) : IsPlaceholder(ts[i])}
    IN  /\ \A i, j \in holders : ts[i] = ts[j] => i = j
        /\ Len(ts) = Len(ps) => \A i \in holders : ps[i] # <<>>

\* C10: for every path template T and concrete path P, match returns a
\* parameter binding if and only if P has as many segments as T and every
\* literal segment of T equals the corresponding segment of P exactly; each
\* {name} placeholder is then bound to the corresponding segment of P, and
\* otherwise match returns none.
C10_MatchIsSegmentwise ==
    (matchOut.by = "matchPath" /\ PlainPair(requestPath, endpointPath)) =>
        /\ matchOut.matched = SegmentMatch(requestPath, endpointPath).matched
        /\ matchOut.params = SegmentMatch(requestPath, endpointPath).params

(***************************************************************************)
(* Claims about operation lookup and request translation                  *)
(***************************************************************************)
\* The path the entry interceptor looks up for the request.
EntryPath ==
    IF EntryCfg.kind = "Swagger"
    THEN RemoveFirst(Pathname(lastFetch.input.url), SwaggerBase)
    ELSE CleanUrl(EntryCfg, lastFetch.input.url)

\* The registered operations of the request's method whose template matches
\* the request path segment by segment.
Candidates ==
    {k \in 1..Len(endpoints) :
        /\ endpoints[k].method = RequestMethod(lastFetch.init)
        /\ SegmentMatch(EntryPath, endpoints[k].path).matched}

\* The bridge calls the entry interceptor made for the completed fetch.
EntryCalls == lastFetch.result.hops[1].calls

\* C11: operation lookup considers only operations whose method equals the
\* request method and, among those, selects the first operation in
\* registration order whose template matches the request path; a later
\* registered operation that also matches is never selected, and nothing is
\* invoked when no operation matches.
C11_FirstRegisteredMatchWins ==
    Intercepted =>
        IF Candidates = {}
        THEN EntryCalls = <<>>
        ELSE /\ Len(EntryCalls) = 1
             /\ \E k \in Candidates :
                    /\ \A j \in Candidates : k <= j
                    /\ EntryCalls[1].operationId = endpoints[k].operationId

\* Two registered GET operations match the path and an operation of another
\* method is registered before them: the first of the two was invoked.
C11_Witness ==
    /\ Intercepted
    /\ Cardinality(Candidates) = 2
    /\ \E j \in 1..Len(endpoints) :
           /\ \A k \in Candidates : j < k
           /\ endpoints[j].method # RequestMethod(lastFetch.init)
    /\ Len(EntryCalls) = 1
    /\ EntryCalls[1].operationId = "get_user"

(***************************************************************************)
(* Claims about the operation registry                                     *)
(***************************************************************************)
\* C12: loading operation set S1 and then S2 leaves the registry holding
\* exactly S2's operations: when a load of a valid source has succeeded,
\* getEndpoints() returns exactly the operations of that source, and so does
\* the list Bridge.loadBackend returned.
C12_RegistryHoldsLatestLoad ==
    (lastLoad.done /\ lastLoad.ok /\ lastLoad.state = "resolved") =>
        /\ endpoints = Backend(lastLoad.b)
        /\ kind = "Bridge" => lastLoad.returned = Backend(lastLoad.b)

\* C20: when loading a backend fails, Bridge.loadBackend rejects with a load
\* error (and the bridge stays usable for a later load of a valid source).
C20_FailedLoadRejects ==
    (kind = "Bridge" /\ lastLoad.done /\ ~lastLoad.ok) => lastLoad.state = "rejected"

\* C16: a failure to flush runtime state to durable storage is logged and
\* swallowed: persist() never rejects because the storage flush failed.
C16_PersistFailureSwallowed ==
    (lastPersist.done /\ lastPersist.attempted /\ ~lastPersist.flushOk) =>
        lastPersist.settled.state = "resolved"

(***************************************************************************)
(* Claims about request translation                                        *)
(***************************************************************************)
\* The name/value pairs of the request URL's query string, each value the
\* string written in the URL.
RequestQuery == SearchParams(lastFetch.input.url)

\* The query parameters an interceptor handed to the bridge with a call:
\* params.queryParams of bridge.call, the queryParams argument of
\* executeEndpoint.
GivenQuery(call) ==
    IF call.by = "Swagger" THEN call.queryParams ELSE ObjGet(call.params, KeyQueryParams)

\* C13: for an intercepted request, the query parameters handed to the
\* bridge are exactly the name/value pairs of the request URL's query
\* string, each value as an uncoerced string; a request with a non-empty
\* query string never reaches the bridge with its query parameters missing.
C13_QueryParamsReachBridge ==
    (Intercepted /\ Len(EntryCalls) = 1 /\ RequestQuery.items # <<>>) =>
        GivenQuery(EntryCalls[1]) = RequestQuery

RECURSIVE ReplaceToken(_, _, _, _)
\* s with every occurrence of word that is a whole token (no word character
\* before or after it) replaced by repl; afterWord: the character before s
\* is a word character.
ReplaceToken(s, word, repl, afterWord) ==
    IF s = <<>> THEN <<>>
    ELSE IF ~afterWord /\ StartsWith(s, word) /\ WordBoundaryAt(Drop(s, Len(word)))
    THEN repl \o ReplaceToken(Drop(s, Len(word)), word, repl, TRUE)
    ELSE <<Head(s)>> \o ReplaceToken(Tail(s), word, repl, Head(s) \in WordChars)

\* The body text with the whole tokens True, False and None rewritten.
NormalizeTokens(s) ==
    ReplaceToken(ReplaceToken(ReplaceToken(s, PyTrue, JsTrue, FALSE),
                              PyFalse, JsFalse, FALSE),
                 PyNone, JsNull, FALSE)

\* The request was intercepted with a string body on a body-carrying
\* method, and one call reached the runtime.
StringBodyInvoked ==
    /\ Intercepted
    /\ Len(EntryCalls) = 1
    /\ EntryCalls[1].invoked
    /\ RequestMethod(lastFetch.init) \in BodyMethods
    /\ RequestBody(lastFetch.init).t = "string"
    /\ RequestBody(lastFetch.init).s # <<>>

\* C14: a string request body containing True, False or None as whole
\* tokens is handed to the runtime parsed with those tokens as true, false
\* and null, while a body in which those letters occur only as part of a
\* longer word is not altered.
C14_LiteralsNormalized ==
    (StringBodyInvoked /\ JsonParse(NormalizeTokens(RequestBody(lastFetch.init).s)).ok) =>
        EntryCalls[1].body = JsonParse(NormalizeTokens(RequestBody(lastFetch.init).s)).v

\* The body an interceptor handed to the bridge with a call: params.body of
\* bridge.call, the body argument of executeEndpoint.
GivenBody(call) ==
    IF call.by = "Swagger" THEN call.body ELSE ObjGet(call.params, KeyBody)

\* The request was intercepted for a registered operation of a
\* body-carrying method with a string body that is not JSON, with or
\* without the literal rewriting.
MalformedBody ==
    /\ Intercepted
    /\ EntryLookup.found
    /\ RequestMethod(lastFetch.init) \in BodyMethods
    /\ RequestBody(lastFetch.init).t = "string"
    /\ RequestBody(lastFetch.init).s # <<>>
    /\ ~JsonParse(RequestBody(lastFetch.init).s).ok
    /\ ~JsonParse(NormalizeTokens(RequestBody(lastFetch.init).s)).ok

\* C15: when the request body cannot be parsed as JSON, request translation
\* does not throw: the call is made, the raw original body is passed on
\* unchanged as the call's body, and the invocation proceeds.
C15_MalformedBodyPassedRaw ==
    MalformedBody =>
        /\ Len(EntryCalls) = 1
        /\ GivenBody(EntryCalls[1]) = RequestBody(lastFetch.init)
        /\ EntryCalls[1].invoked

\* A POST with the body "{oops" was translated into a create_user call
\* carrying that text.
C15_Witness ==
    /\ MalformedBody
    /\ lastFetch.init.body = BodyMalformed
    /\ Len(EntryCalls) = 1
    /\ EntryCalls[1].operationId = "create_user"
    /\ GivenBody(EntryCalls[1]) = BodyMalformed

\* The scenario: get_user (GET /users/{id}) is registered, a FetchInterceptor
\* with API prefix /api is the global fetch, GET /api/users/7 has been
\* fetched and the runtime returned its content with status_code 200.
GetUserScenario ==
    /\ lastFetch.done
    /\ lastFetch.entry # 0
    /\ EntryCfg.kind = "FetchInterceptor"
    /\ EntryCfg.apiPrefix = ApiPrefix
    /\ \E k \in 1..Len(endpoints) : endpoints[k] = OpGetUser
    /\ isInitialized /\ backendLoaded /\ pyodide # 0
    /\ lastFetch.input.url = UrlUser7
    /\ RequestMethod(lastFetch.init) = "GET"
    /\ lastFetch.rt = [kind |-> "return", status |-> 200]

\* C17: end to end, with get_user (GET /users/{id}) registered and the
\* interceptor installed with API prefix /api, fetching GET /api/users/7
\* invokes the runtime exactly once, with operation get_user and path
\* parameters {id: "7"}, and when the runtime returns its content with
\* status_code 200 the fetch resolves to a Response with status 200 whose
\* body is that content as JSON.
C17_GetUserEndToEnd ==
    GetUserScenario =>
        /\ Len(EntryCalls) = 1
        /\ EntryCalls[1].invoked
        /\ EntryCalls[1].operationId = "get_user"
        /\ EntryCalls[1].pathParams = Obj(<<Pair(KeyId, Str(<<"7">>))>>)
        /\ lastFetch.result.outcome = "response"
        /\ lastFetch.result.native = <<>>
        /\ lastFetch.result.status = 200
        /\ lastFetch.result.body = Json(Content(lastFetch.rt))

\* The scenario has run with get_user the only registered operation.
C17_Witness ==
    /\ GetUserScenario
    /\ endpoints = <<OpGetUser>>
    /\ EntryCalls[1].pathParams = Obj(<<Pair(KeyId, Str(<<"7">>))>>)
    /\ lastFetch.result.status = 200

(***************************************************************************)
(* Claims about route matching                                             *)
(***************************************************************************)
\* C21: with the default configuration (no custom routeMatcher), a request
\* is intercepted only if its URL begins with the configured API prefix; a
\* URL that does not begin with the prefix is passed to the original
\* primitive without the bridge being consulted.
C21_DefaultInterceptsPrefixOnly ==
    (lastFetch.done /\ lastFetch.entry # 0 /\ EntryCfg = DefaultConfig) =>
        (lastFetch.result.hops[1].intercepted =>
             StartsWith(lastFetch.input.url, EntryCfg.apiPrefix))

\* p is q followed by one "/".
AddsSlash(p, q) == p = q \o <<"/">>

\* The path without its last character.
WithoutLast(p) == SubSeq(p, 1, Len(p) - 1)

\* The request path is a path the template matches segment by segment,
\* followed by a trailing slash.
RequestHasExtraSlash ==
    /\ Len(requestPath) > 1
    /\ AddsSlash(requestPath, WithoutLast(requestPath))
    /\ SegmentMatch(WithoutLast(requestPath), endpointPath).matched

\* The template is a template that matches the request path segment by
\* segment, followed by a trailing slash.
TemplateHasExtraSlash ==
    /\ Len(endpointPath) > 1
    /\ AddsSlash(endpointPath, WithoutLast(endpointPath))
    /\ SegmentMatch(requestPath, WithoutLast(endpointPath)).matched

\* C22: trailing slashes are not normalized in matching: a request for
\* /users/ does not match a template /users, a request for /users does not
\* match a template /users/, and cleanUrl leaves the trailing slash of a
\* request under the API prefix in place.
C22_TrailingSlashDistinct ==
    (matchOut.by = "matchPath" /\ (RequestHasExtraSlash \/ TemplateHasExtraSlash)) =>
        /\ ~matchOut.matched
        /\ CleanUrl(DefaultConfig, ApiPrefix \o requestPath) = requestPath
        /\ CleanUrl(DefaultConfig, endpointPath) = endpointPath

\* /7/ was matched against /{id} and did not match.
C22_Witness ==
    /\ matchOut.by = "matchPath"
    /\ endpointPath = <<"/", "{", "i", "d", "}">>
    /\ requestPath = <<"/", "7", "/">>
    /\ RequestHasExtraSlash
    /\ ~matchOut.matched

(***************************************************************************)
(* The BridgeRouter component on a page                                    *)
(***************************************************************************)
\* The requests the page issues while the component lives and after it.
RouterInputs == [form : {"string"}, url : {UrlUser7, UrlFileList}]

InitRouter ==
    /\ ParkLife
    /\ ParkMatch
    /\ ParkBackend
    /\ ParkFetch
    /\ ParkPage

RouterStep ==
    \/ \E ok \in BOOLEAN : RouterInitialize(ok)
    \/ \E ok \in BOOLEAN : RouterFetchFiles(ok)
    \/ \E i \in Interceptors, b \in Sources, ok \in BOOLEAN : RouterLoadBackend(i, b, ok)

NextRouter ==
    \/ RouterMount
    \/ \E p \in Prefixes : RouterSetPrefix(p)
    \/ RouterUnmount
    \/ \E ok \in BOOLEAN : RouterInitialize(ok)
    \/ \E ok \in BOOLEAN : RouterFetchFiles(ok)
    \/ \E i \in Interceptors, b \in Sources, ok \in BOOLEAN : RouterLoadBackend(i, b, ok)
    \/ \E input \in RouterInputs, rt \in {[kind |-> "return", status |-> 200]} :
           Fetch(input, NoInit, rt, "response")
    \/ FetchReturn

\* Every await of initializeBridge settles, and every fetch returns.
SpecRouter ==
    /\ InitRouter
    /\ [][NextRouter]_vars
    /\ WF_vars(RouterStep)
    /\ WF_vars(FetchReturn)

\* restore() of the interceptor the component left behind has been called
\* and the global fetch is the reference from before the installation.
RouterRestored ==
    /\ router.left # 0
    /\ icpt[router.left].restores > 0
    /\ globalFetch = icpt[router.left].pre

\* C23: BridgeRouter cleans up automatically: whenever the component is
\* unmounted after its FetchInterceptor was installed, restore() is
\* eventually called and the global fetch is again the reference from
\* before the installation.
C23_UnmountRestoresFetch == (router.left # 0) ~> RouterRestored

(***************************************************************************)
(* The PyodideProvider component on a page                                 *)
(***************************************************************************)
InitProvider ==
    /\ kind = "Engine"
    /\ isInitialized = FALSE
    /\ initPromise = 0
    /\ pyodide = 0
    /\ runs = <<>>
    /\ stepCount = [s \in Stages |-> 0]
    /\ callers = [c \in Callers |-> IdleCaller]
    /\ loaders = [l \in Loaders |-> IdleCaller]
    /\ ParkMatch
    /\ ParkBackend
    /\ ParkFetch
    /\ ParkPage

\* The codes the pythonCode prop takes.
ProviderCodes == {1, 2, 3}

ProviderStep ==
    \/ ProviderTimer
    \/ \E ok \in BOOLEAN : ProviderInitialize(ok)
    \/ \E ok \in BOOLEAN : ProviderLoad(ok)

NextProvider ==
    \/ \E c \in ProviderCodes : ProviderMount(c)
    \/ ProviderStrictRerun
    \/ \E c \in ProviderCodes : ProviderSetCode(c)
    \/ ProviderTimer
    \/ \E ok \in BOOLEAN : ProviderInitialize(ok)
    \/ \E ok \in BOOLEAN : ProviderLoad(ok)

\* Every timer fires and every await of the initialization settles.
SpecProvider ==
    /\ InitProvider
    /\ [][NextProvider]_vars
    /\ WF_vars(ProviderStep)

\* C24: PyodideProvider initializes once on mount and again when pythonCode
\* actually changes: after the effect ran for a new code, loadUserCode is
\* eventually invoked with that code (or the initialization reports an
\* error, or the code changes again).
C24_NewCodeEventuallyLoaded ==
    \A c \in ProviderCodes :
        (provider.pending /\ provider.pythonCode = c) ~>
            (~provider.pending \/ provider.pythonCode # c)

(***************************************************************************)
(* Overlapping PyodideEngine.executeEndpoint calls                         *)
(***************************************************************************)
\* An initialized engine: no user code loaded, source 2 loaded, source 2
\* loaded a second time (the runtime-side bridge reset), or a failed load
\* after source 2 was loaded (the endpoint list cleared).
InitEngine ==
    /\ kind = "Engine"
    /\ ReadyLife
    /\ ParkMatch
    /\ ParkFetch
    /\ ParkPage
    /\ backendLoaded \in BOOLEAN
    /\ endpoints \in IF backendLoaded THEN {Backend(2), <<>>} ELSE {<<>>}
    /\ pyBridge \in {endpoints, <<>>}
    /\ codeHash = IF backendLoaded THEN 2 ELSE 0
    /\ appMain = 0
    /\ lastCall = NoCall
    /\ lastLoad = NoLoad
    /\ lastPersist = NoPersist

NextEngine ==
    \/ \E e \in ExecCallers, op \in ExecOps, body \in ExecBodies : ExecBegin(e, op, body)
    \/ \E e \in ExecCallers, raised \in BOOLEAN : ExecPython(e, raised)
    \/ \E e \in ExecCallers : ExecSave(e)
    \/ \E e \in ExecCallers : ExecReturn(e)

SpecEngine == InitEngine /\ [][NextEngine]_vars

\* The operation of call e is registered with a mutating method.
RegisteredMutating(e) ==
    \E i \in 1..Len(endpoints) :
        /\ endpoints[i].operationId = execs[e].op
        /\ endpoints[i].method \in {"POST", "PUT", "PATCH", "DELETE"}

\* C25: PyodideEngine.executeEndpoint auto-saves after data-modifying
\* operations: a call whose operation is registered with a mutating method
\* and whose invocation did not throw has awaited the save of the
\* persistent state when its result is returned, a call that is still
\* saving has not returned, and a call of an operation with a non-mutating
\* method saves nothing.
C25_AutoSaveAfterMutating ==
    \A e \in ExecCallers :
        /\ (execs[e].pc = "done" /\ execs[e].outcome = "returned") =>
               (execs[e].saved <=> RegisteredMutating(e))
        /\ execs[e].pc = "saving" => (RegisteredMutating(e) /\ ~execs[e].saved)
        /\ execs[e].outcome = "threw" => ~execs[e].saved

\* A POST call returned after its save, and a GET call returned unsaved.
C25_Witness ==
    /\ execs[1].pc = "done" /\ execs[1].op = "create_user"
    /\ execs[1].outcome = "returned" /\ execs[1].saved
    /\ execs[2].pc = "done" /\ execs[2].op = "get_user"
    /\ execs[2].outcome = "returned" /\ ~execs[2].saved

\* C27: when two executeEndpoint calls are in flight at the same time, the
\* Python code of each call reads the request body its own call was given.
C27_OwnRequestBody ==
    \A e \in ExecCallers :
        (execs[e].pc \in {"saving", "done"} /\ execs[e].outcome # "none"
             /\ execs[e].read # 0) => execs[e].read = execs[e].body

(***************************************************************************)
(* Claims about PyodideEngine.loadUserCode                                 *)
(***************************************************************************)
\* C26: after PyodideEngine.loadUserCode completes successfully, also when
\* it repeats the code already loaded, the operations registered in the
\* runtime-side bridge are the ones getEndpoints() lists.
C26_RuntimeMatchesEndpoints ==
    (kind = "Engine" /\ lastLoad.done /\ lastLoad.state = "resolved") =>
        pyBridge = endpoints

\* C30: when PyodideEndpointExecutor.loadUserCode fails while executing
\* new code, the executor does not report code as loaded, with the hash of
\* the earlier code, while getEndpoints() is empty.
C30_FailedLoadConsistent ==
    (kind = "Engine" /\ lastLoad.done /\ lastLoad.state = "rejected") =>
        ~(backendLoaded /\ codeHash # 0 /\ endpoints = <<>>)

(***************************************************************************)
(* Claims about the slots parameters are delivered in                      *)
(***************************************************************************)
\* The values the template of the operation found binds its placeholders to.
TemplateBinding == SegmentMatch(EntryPath, EntryLookup.endpoint.path).params

\* The keys of an object.
KeysOf(o) == {o.items[i].s : i \in 1..Len(o.items)}

\* A FetchInterceptor translated the request into one call that reached the
\* runtime.
TranslatedCall ==
    /\ Intercepted
    /\ EntryCfg.kind = "FetchInterceptor"
    /\ EntryLookup.found
    /\ Len(EntryCalls) = 1
    /\ EntryCalls[1].invoked

\* C28: every path parameter of the request reaches the runtime inside
\* path_params under the name it has in the template, whatever that name
\* is; query parameters arrive inside query_params and the parsed body
\* arrives as body; none of them is delivered in another slot.
C28_ParamsInTheirSlots ==
    TranslatedCall =>
        /\ \A n \in DOMAIN TemplateBinding :
               /\ ObjHas(EntryCalls[1].pathParams, n)
               /\ ObjGet(EntryCalls[1].pathParams, n) = Str(TemplateBinding[n])
        /\ KeysOf(EntryCalls[1].pathParams) \subseteq DOMAIN TemplateBinding
        /\ KeysOf(EntryCalls[1].queryParams) \subseteq KeysOf(RequestQuery)
        /\ (RequestMethod(lastFetch.init) \in BodyMethods
                /\ Truthy(RequestBody(lastFetch.init))) =>
               EntryCalls[1].body = GivenBody(EntryCalls[1])

(***************************************************************************)
(* Claims about the events of Bridge.call                                  *)
(***************************************************************************)
\* The events the settled call emitted, in order.
CallEvents == lastCall.settled.events

\* The completion events emitted after position i.
CompletionsAfter(i) ==
    {j \in (i + 1)..Len(CallEvents) : CallEvents[j] \in {"call-end", "call-error"}}

====
